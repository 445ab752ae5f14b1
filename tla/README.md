# A TLA+ model of the my_os2022 repository

The repository holds a teaching operating system and a few Linux programs: a
kernel (`src/kernel`) on an abstract machine (`src/abstract-machine`: a hardware
layer `am` for x86/qemu and for a native Linux process, and a small C library
`klib`), a coroutine library (`src/libco`), and the tools `crepl`, `sperf`,
`pstree` and `amgame`. This directory specifies the parts with interesting state,
checks them with TLC and proves with TLAPS nearly all of the safety properties: of
the memory allocator, the ring of lines of a tty and the page tables of x86 (which
implement their abstract specifications), libco, the keyboard and screen of the
ttys, the disk, the start of the processors, traps, context switches and address
spaces of both machines, crepl and the scans of pstree.

## Inventory

| Component | State | Operations | What is hard | What makes it correct |
|---|---|---|---|---|
| **pmm** (`kernel/src/pmm.c`) | page table `Meta`, `G_lock`, per-CPU chains of slabs `Slab`, in each slab a lock, an object size, a sorted free list and `next` | `pmm_init`, `kalloc`, `kfree` | all CPUs allocate and free at once, and free each other's objects; one unlocked read; locks nested in `add_slab`; end of the heap | blocks in use never share a byte, are aligned and inside the heap; nothing leaks; no assert fails; every call returns |
| **libco** (`libco/co.c`) | `POOL`, `id`, `current`, per coroutine status and waiter | `co_start`, `co_wait`, `co_yield`, the end of a coroutine | a coroutine dies before, during or after the wait for it; freed structures are reused | no wake-up is lost, freed memory is not scheduled, everyone gets a turn |
| **input** (`dev_input.c`) | ring of events, lock, `event_sem`, `sem_kbdirq`, modifier flags | interrupt handler, daemon, `input_read` | handler, daemon and readers interleave; unlocked `is_empty`; full ring | semaphore and ring agree, order is kept, modifiers are the keyboard's, no key waits for the next interrupt |
| **tty** (`dev_tty.c`) | queue of cooked bytes, screen, cursor, dirty marks | `tty_read`, `tty_write`, `tty_cook`, `tty_render`, daemon | bytes of lines in a ring, marks without the lock, scrolling | a read gives one typed line; the screen shows what was written |
| **fb** (`dev_video.c`, in part) | textures, sprites, current display | `fb_read`, `fb_write` | shared by both ttys | sprites of the current display are drawn in order |
| **sd** (`dev_sd.c`) | one block buffer for all callers | `sd_init`, `sd_read`, `sd_write` | no lock; blocks written in part are read first; the end of the image | without overlap, an array of bytes; with it, untouched blocks stay |
| dev (`dev.c`) | table of devices | `dev_init`, `lookup` | the order of initialisation | every lookup finds an initialised device |
| os, kmt, boot | - | `os_init`, `os_run`; `kmt` is empty at this commit | - | - |
| **am x86/qemu: processors** (`mpe.c`, `trm.c`, `boot/`) | boot record, `ap_ready`, state of each processor | boot, `mpe_init`, `halt` | one boot stack and one flag for all processors; a halt during the start | one processor at a time in the boot sector, all start, a halt stops all |
| **am x86/qemu: traps** (`cte.c`, `trap64.S`) | frames on kernel stacks, CR3, `tss.rsp0` | gate, `__am_irq_handle`, `__am_iret`, `kcontext`, `ucontext` | traps nest, threads move between processors | a thread goes on where it was, in its space and with its stack |
| **am x86/qemu: address spaces** (`vme.c`) | page tables | `vme_init`, `protect`, `unprotect`, `map` | tables shared with the kernel, teardown, pages used again | user code reaches what `map` was told; tables are freed once |
| **am native: traps** (`cte.c`) | `ev`, `ksp` and `vm_head` of each processor, signal masks | `sig_handler`, `irq_handle`, `__am_iret`, `iset`, `yield` | signals at any point, one event word | the event is the one that stopped the thread |
| **am native: address spaces** (`vme.c`) | list of page maps, `is_mapped` | `protect`, `map`, `__am_switch` | one flag for all processes, lists linked through the maps | a process has the pages of its space |
| **am native: devices** (`ioe/input.c`, `audio.c`, `disk.c`) | key ring, sample pipe and `count`, disk image | event thread, `__am_input_keybrd`, audio callback, `__am_disk_blkio` | unlocked `count`, loaded twice by the callback; a ring without a full test | keys and samples come out once and in order, but for what a full ring or the races on `count` lose |
| **klib** (`int64.c`, `stdio.c`, `stdlib.c`) | none | long division, bit counts, `sprintf`, `atoi` | edges of numbers and widths | C's arithmetic; a number printed is the number given, as its own flags and width say (klib's layout of signs differs from C's, see Observations) |
| **crepl** | a file per session, one shared object for all | read, compile, load, call | failed compilation, libraries still open, two sessions | the answer is that of the line typed |
| **sperf** | table of calls | `call_add`, `call_sort`, report | a table that is sorted while it grows | the report adds up |
| **pstree** | array of processes | two scans of `/proc`, recursive print | processes come and go between the scans, and between `readdir`, `fopen` and `fscanf` | if a tree is printed, what stayed is in it once, below its parent (but see Observations) |
| amgame | - | a demo | - | - |

How they interact: devices, tasks and the abstract machine's page tables take
their memory from pmm. The keyboard interrupt signals `sem_kbdirq`; the input
daemon fills the ring; the tty daemon reads it, cooks lines for `tty_read` and
echoes through `tty_write`, which draws through fb. All of them use locks and
semaphores of kmt, of which the repository has only the interface; the models
take those as external. At this commit `os_init` calls only `pmm->init` and
`dev->init` is not called, so that the device models describe the code as it
runs once kmt is supplied.

`PROJECT.json` lists each hazard of this code at its line, with the properties
that watch it.

## Modules

| Module | What it is |
|---|---|
| `Pmm` | the allocator, one action per critical section half; its properties; the refinement mapping to `PmmSpec` |
| `PmmSpec` | what `pmm->alloc` and `pmm->free` promise, without slabs, pages or locks |
| `PmmInd` | the inductive invariant `IInv`, and the invariants that are inductive beside it |
| `PmmProofs` | theorems about `Pmm`: `IInv` and what follows from it |
| `PmmTheorems` | theorems about `Pmm`: asserts, slabs, leaks, NULL, and the implementation of `PmmSpec` |
| `MCPmm` + 3 cfgs | instances |
| `Rounding` | the bit arithmetic of `kalloc` with the code's constants |
| `Libco`, `MCLibco` | the coroutine library |
| `Input`, `InputProofs`, `MCInput` + 2 cfgs | the keyboard device |
| `Tty`, `TtyProofs`, `MCTty`, + `MCTtySwitch.cfg` | the screens of the ttys, their daemon and the frame buffer they draw on |
| `Cook`, `CookProofs`, `MCCook` | the ring of cooked lines of a tty; the refinement mapping to `TtyLines` |
| `TtyLines` | what `tty_cook` and `tty_read` promise: a queue of lines and a draft |
| `Sd` | the kernel's disk over the native machine's |
| `X86Boot` | start and stop of the x86 processors |
| `NativeIoe` | keyboard and audio of the native machine |
| `MachineProofs` | theorems about `X86Boot`, `Sd` and `NativeIoe` |
| `MCMachines` | an instance of the three |
| `X86Vme` | page tables; the refinement mapping to `AddrSpaces` |
| `AddrSpaces` | what `protect`, `unprotect` and `map` promise: a set of mappings per space |
| `NativeVme` | page maps of the native machine |
| `X86Cte`, `NativeCte` | traps and context switches of the two machines |
| `ContextProofs` | theorems about these two and about `X86Vme` and `NativeVme` |
| `MCContexts` | an instance of the four |
| `Int64`, `Klib` | library functions |
| `Crepl`, `Pstree`, `Sperf` | the command line tools |
| `ProgramProofs` | theorems about `Libco`, `Crepl` and `Pstree` |
| `MCPrograms` | an instance of `Rounding`, `Int64`, `Klib` and the tools |
| `Null` | the constant NULL, shared by modules that one instance extends |

`MCPrograms`, `MCContexts` and `MCMachines` each hold several modules that do not
interact: the variable `part`, chosen in the initial state, says which of them a
behaviour is about, and the others stay as they are. The number of states is the
sum of theirs.

Definitions keep the C names. A definition `X_Bug` is a slip that the code
invites (a missing guard, a lost unlock, an index off by one): put in the place
of `X`, it breaks the property that `PROJECT.json` pairs it with.

### Pmm

A page is an index, an address a page and an offset. `Meta[i]` has the fields of
the C entry, `end` as a page number. A slab's header is spread over the functions
`lk`, `sz`, `next` and `n_head` (the linked free list as a sequence of nodes).
A thread has a program counter and the C locals that live across a lock
operation. Each critical section is two steps, so that the reads under the lock
(`list`, `page`) are visibly separate from the writes: `slab_alloc_lock` and
`slab_alloc_take`, `G_alloc_lock` and `G_alloc_take`, `S_free_lock` and
`S_free_link`, `G_free_lock` and `G_free_clear`; `add_slab` holds its slab's lock
from `add_slab_lock` over `G_alloc` to `add_slab_link`. The unlocked read of
`is_slab` is in `kfree`. Asserts are guards, so that a failed one stops its
thread; `AssertsHold` says that none fails, and deadlock is checked.

`nextPower_2` and `get_slab_index` are given by what they compute; `Rounding`
checks that the shifts and the halving loop compute it, with the constants of the
code and at the edges of every class. The content of entries of `Meta` after
`n_meta`, which `meta_init` does not write, is arbitrary (`Uninit`).

`Owned` is the memory in use: held by a caller, on the way to one (`ret`) or on
the way back (`ptr`, until the critical section of `kfree` takes effect).

### Libco

The processor changes hands only in `co_yield`, so a step is everything one
coroutine does up to the switch. `co_exit` is the second half of `co_yield`,
reached when a coroutine's function returns. A structure that was freed may be
returned by `malloc` again with its old contents, which is why `waiter` is not
reset by `free`. `target` is the argument of the `co_wait` a coroutine is inside,
and `owner` restricts programs to what the library's tests do: wait once for
each coroutine one has started.

### Input

The keyboard is a queue of codes, each with what was physically held when it was
sent, for the properties to compare with. `poll` is a round of the daemon's inner
loop, `time` the unlocked test for the 100 ms tick, `push_lock`, `push_write` and
`push_signal` are `push_event`, `pop_wait`, `pop_lock` and `pop_take` are
`pop_event`. Keys are the kinds `input_keydown` tells apart. Time is abstracted:
the tick may be due or not. A panic stops the machine.

### Tty

A tty's arrays are functions on cells numbered as in the C code; `dirty` is the
set of marked cells and the cursor a cell number. The display shows a glyph per
cell: the two sprites of a cell are one. `tty_write` is one step under the lock,
or two when it scrolls, because the daemon, which reads the cursor without the
lock, can see it at the end of the array in between (`write`, `write_scroll`);
the update of cursor and text within one character can otherwise only make it
mark a cell more. `tty_render`, `fb_write` and `render_clear` are the three parts
of `tty_render`, between which the daemon's unlocked marks fall. The daemon's
round is `echo`, `key` or `switch_mark`, `switch_display`, `switch_render`, and
then `blink`, `blink_mark`, `blink_render`. Scrolling needs `memmove`, which
klib leaves unimplemented (it panics); the model describes the native build.

The tasks other than the daemon that write are arbitrary: any character to any
tty. The cursor itself may be missing from the display or left shown when a
task's `tty_render` clears the daemon's mark undrawn; `TextShown` allows that.

### Sd

A request goes block by block: `blk_read` fills the shared buffer, `copy_out` or
`copy_in` moves the part of the block that is asked for, `blk_write` stores the
buffer; any other caller's steps may come between. The bytes written are told
apart by request and position, so that a mixed buffer shows. A block that reaches
past the end of the image fails the assert of `__am_disk_blkio` when it is read
and lengthens the image when it is written. `ref` is what the image should be.

### Cook

`tty_cook` and `tty_read` work on the ring under the tty's lock, so each is one
step after `sem_wait(cooked)` (`tty_read_wait`). The ring is modelled byte by
byte with the stale bytes that lie outside `front` .. `rear`, because
`tty_pop_back` decides by the byte before `rear` whether a backspace may erase,
even if that byte was read long ago or never written. It is zero when never
written, as memory from the boot heap is. `finished` and `draft` of `TtyLines`
are computed from the bytes between `front` and `rear` (`Finished`, `Draft`).

### X86Boot

`cpu[c]` names the place of processor c from the boot sector to `user_entry`, or in
the loops of `mpe_init` and `__am_stop_the_world`. INIT and the two STARTUPs of
`__am_lapic_bootap` are separate steps, as are the writes of the boot record
(`is_ap`, `jmp_code`) and their reads by the processor that is started. What INIT
and STARTUP do to a processor is external. Descriptor tables and the assembly up to
`_start_c` are one step.

### X86Vme and NativeVme

`X86Vme` is the 32-bit build, in which `vme_init` builds the kernel's tables: an
entry of a directory, an entry of a table, and a virtual address that is the pair of
their indices. The 64-bit build runs the same loops over four levels. `pt` holds the
entries of every page and `used` the pages given out; `ptwalk` is the C function as a
function on them, including the table that a walk leaves behind when `map` then
panics, and `unprotect` does all of `teardown`. Which pages `vme_init` gets is
arbitrary. `Translate` is the processor's walk, external, and `space` what it gives to
user code: the variable that `AddrSpaces` specifies.

In `NativeVme` the page maps of a space are a function from addresses, linked by
`next`. `list_foreach` is the set of maps that a walk comes to, by what every set
closed under `next` contains, and whether it ends; what `mmap` has done in each process is `mapped`. Which memory the hash
table is in is left out. Behaviours are followed until two processors use one
space: `is_mapped` is shared, and the code promises nothing then.

### X86Cte and NativeCte

A thread's program is a counter, and its context the counter with the cause of the
trap, the mode, the address space and the kernel stack that were saved. `did`
(`done`) counts what the thread has really executed. On x86 the gates are trap
gates, so that `gate` can come again before the stub's `cli`. On the native machine
a trap is a signal: `sig_handler` prepares the return into `irq_handle`, with `ev`
as the only way the event gets there, and `iret_native` is the fault on a magic
address that puts a context back. The handler the program installed is external:
it may return any context of a thread that no other processor is on.

### NativeIoe

The event thread and the program each hold the key ring's lock for the whole of
their step. `due` is a queue that forgets all it holds when the last place is taken:
what `KeysKept` compares the ring with, so that it says just which events are lost.

`count` is volatile and unlocked, so each of its uses in the C text is a step: the
callback's test of it and the load for `nread` (`audio_play`, `play_nread`; `Between`
is the time between them), and `count += n` and `count -= nread`, a load and a store
each. `count += n` is executed for a write that fails too (n = 0). A write may take a
part of the buffer, and the next one starts at the beginning of the buffer again, as
the code does; reads fill the beginning of the stream likewise, and those past its
`len` bytes are lost. `audio_ctrl` sets `count` to 0, and SDL calls the callback from
then on. The three flags `lost`, `partial` and `grown` say which of the races has
happened; `AudioKept` says what holds before and after each.

### Int64 and Klib

The helpers of `Int64` take the width of a word as a parameter, so that TLC can try
all pairs of small numbers; halves, shifts and borrows are those of the code. A
`du_int` division by zero is left out. In `Klib` the format is taken one character
at a time, as `vsprintf` does, and numbers are of `IntBits` bits. `tmp` has a place
for each bit, and what is written past it is lost (NULL). `NumberField` says what a
field looks like: fill, sign, digits, and how much fill there is.

### Crepl, Pstree, Sperf

The text of lines is abstracted: a definition has a name, the line it came from and
the functions it calls; a line of strace is a name and a time. Whether gcc accepts
a line on its own is a choice; that it refuses a name defined twice, that a failed
build leaves the library as it was and that `dlopen` of an open library returns it
are external facts. In `Pstree` processes are created and end between any two steps
of the tool, and orphans go to process 1. A process is read in three steps,
`readdir` (`load`), `open` and `fscanf`: if it is gone at `fopen`, the assert fails
("abort"); if it is gone at `fscanf`, `rm_paren` copies a name of length -2
("crash"). `Spaced` are processes whose name has a space, for which `fscanf` does not
come to the parent.

## Runs

| Run | Instance | What it shows |
|---|---|---|
| `pmm_two_cpus` | 2 threads on 2 CPUs, 4 pages, slabs of 2 objects, requests of 1 byte and of 2 pages | every interleaving of alloc, free and foreign free keeps blocks apart, slabs sound and complete, leaks nothing, fails no assert, and gives NULL only when no aligned run is left |
| `pmm_liveness` | 2 threads, two classes, one free page for which a slab and a block compete, requests 3, 8 and 33 (refused) | `IInv` holds, the allocator refines `PmmSpec`, and all calls end |
| `pmm_heap_end` | heap end not aligned to the block size | expected violation, see Findings |
| `libco` | main and 3 coroutines, 4 slots | `POOL`, `id`, `current`, statuses and waiters agree in every state; nobody hangs, everyone gets a turn |
| `input_ring` | 2 readers, 3 slots, 2 keys | the ring, up to and including its overflow; no code and no event is left behind |
| `input_keys` | 1 reader, letter and modifiers, 2 codes ahead | events carry the modifiers of their key press |
| `tty_display` | ttys of 2 lines and 2 columns, 2 characters: the daemon alone on two of them, or on one with 2 writers | whenever the daemon waits, the display shows the current tty and its cursor; with writers no text is left undrawn, and a tty does not change while it is rendered |
| `tty_switch` | the daemon and 1 writer, 2 ttys | expected violation, see Findings |
| `tty_lines` | 2 readers, a ring of 5 bytes, 2 characters, reads of 1 and 2 bytes | the ring is a queue of lines and a draft, up to and including its overflow; no finished line stays behind |
| `programs` | requests around every power of two up to 2^24; all pairs of 8-bit numbers by halves of 4 bits, 16-bit counts; 5-bit numbers printed; 2 crepl sessions of 3 lines; 5 processes, one with a space in its name and a child, and 2 more; 4 names for a table of 3 and a top of 2 | each function and tool computes what it should |
| `contexts` | x86: 2 spaces, 2 tables of 2 pages each, 6 frames and a data page; native: 2 processors, 2 spaces, 2 pages; traps: 2 processors, a kernel thread and a user thread, on x86 nested twice | page tables implement `AddrSpaces` and are freed once; processes show their space; threads survive traps, nesting and migration, with the right event |
| `machines` | 3 processors; a disk of 5 bytes in blocks of 2, 2 requests; a ring of 3 and 7 key events; a pipe of 2 bytes and 3 to play | the start and the halt of the machine in every order; disk, keys and audio against sequences |

Why the bounds are enough. In pmm a page with a header of 11 and objects of 2
bytes in 16 leaves two objects, so a slab is full, partly free and empty within a
few calls; the free list gets two nodes, which is what inserting before, after
and carving need; two spare pages let a chain grow and a large block compete with
it. Two threads are what any pair of critical sections needs, and the theorems
cover any number. In libco four slots give a full pool, a hole that `co_start`
fills and a wrap of `id`. In the ring of three slots `rear` wraps, catches up
with `front`, and two readers can be past the semaphore together. `KeysAhead`
and `IrqsAhead` cap the codes and interrupts not yet taken; the daemon looks at
one code at a time and only tests the semaphore for zero. A screen of two lines
scrolls, wraps at the end of a line and has cells that are not on the cursor's
line. A ring of five bytes holds one line of two characters or two empty ones,
wraps, and fills up with and without a finished line in it.

Three processors let one that is up halt while another is started. Requests of all
offsets and lengths on a disk of two blocks and a half start and end inside and at
the ends of blocks, and at the end of an image that is no multiple of a block. With
six frames two spaces run out of pages in `protect` and in the middle of a walk,
and pages of a space given up are used by the other. Four-bit halves let every
branch of the division be taken with every pair of leading zeros. A table of three
for four names overflows; one spare entry for two possible forks does too
(`TreePrinted` says when). A key ring of three fills up twice in seven events. Buffers
and callbacks of one to three bytes over a pipe of two give writes that fit, that are
cut short and that fail, and callbacks that find less, as much and more than they
want, or more at their second look than at their first. Counting a thread's steps modulo 2 tells a context that
is one step old from the right one.

Deadlock is checked except for `programs`, whose behaviours end; `Input`, `Cook` and
`contexts`, where a panic stops the machine; and `machines`, which ends switched off
or with its inputs used up.

### Fairness

`Pmm`: a thread inside a call keeps taking steps (`WF` of `Step(t)`): CPUs do not
stop. Nothing is assumed about callers, and nothing about who wins a spin lock:
`Drains` therefore says that all calls end unless new ones keep starting. `Libco`:
the running coroutine eventually makes its next library call (`WF` of `Next`);
which call it makes is not constrained. `Input`: a pending interrupt is
delivered, the daemon and each reader run when they can (`WF` each, as any
scheduler behind kmt must provide); the lock is unfair. `Cook`: readers run when
they can and come back for more; nobody has to type. `X86Boot`: a processor that can
take a step does, while the power is on (`WF` of `BootStep(c)`); nobody has to call
`halt`.

## Findings

`is_valid_ret` (`pmm.c:55`) compares only the first byte of a candidate with the
end of the heap. When the heap's end is not a multiple of a block's size,
`G_alloc` accepts a run that starts in the last page and ends outside the heap,
reading and writing entries of `Meta` that were never initialised. `am.h:15`
describes the heap as the area `[@start, @end)`. Run `pmm_heap_end` shows it;
`pmm_two_cpus` uses a heap whose end follows an aligned run. `NoOverlap` and the
proofs do not depend on it.

When the daemon switches to the other tty it marks all its cells without the
tty's lock, changes the display and renders (`dev_tty.c:297-299`). A task that is
inside `tty_render` of that tty clears the marks after drawing for the old
display, and the switch then draws nothing: the display goes on showing the first
tty, although the daemon has announced the switch. Run `tty_switch` shows it;
`tty_display` shows that the display is right when nobody else
writes to the other tty, and when there is no switch.

### Observations

What the models show about code of which the repository says nothing that it would
contradict. The properties state the condition under which they hold.

- Two processors that halt at once send each other an INIT. Which of them goes on, if
  any, depends on the time an INIT takes; in the model it takes none, so that one of
  them wins. `WorldStops` therefore says nothing about two halts at once.
- The native machine's `map` links the page map of an address that is mapped already
  to the head of its list again, which makes the list a cycle: the next switch to or
  from the space does not end (`NativeShows` says when). x86 uses a second `map` to
  take a page away.
- The native key ring has no test for full: the event that takes its last place makes
  it look empty, and that event and all that wait are lost. No old code comes back,
  and what is struck later is taken in order (`KeysKept`).
- The audio callback loads `count` for its test and again for `nread` (`audio.c:20`).
  If `audio_write` adds to it in between, `nread` can be larger than `len`: the
  callback reads past SDL's buffer, and the bytes past `len` are taken and not played.
  `AudioKept` says that this is the only way to it, and that no other byte is lost or
  out of place by it.
- `audio_write` sends a buffer of which a part was written from its beginning again,
  and a lost update of `count`, also by the `count = 0` of `__am_audio_ctrl` while
  sound is playing, can make the callback wait for samples that are not there
  (`AudioKept` excepts both from what it says of the samples).
- Requests to the disk that overlap mix in the shared buffer; and a disk image that is
  no multiple of a block has a last block that cannot be read (`DiskExact`).
- A crepl session that loads a library another session has built can keep it open,
  and then answers from it for good (`AnswersOwn`).
- pstree stops at an assert when a process ends between `readdir` and `fopen`, and runs
  over its stack in `rm_paren` when it ends between `fopen` and `fscanf`
  (`pstree.c:127`). It writes past its array when more than five processes are created
  between its scans. `fscanf` reads the name with `%s` (`pstree.c:104`), so that of a
  process with a space in its name the parent is not read and stays 0: neither it nor
  any process below it is printed (`TreePrinted` says so).
- `sitoa` puts the sign after the fill and does not count it in the width: `%05d` of -3
  is `0000-3`, where C has `-0003`. `+` adds a sign to `%u`, `%x` and `%b` too, a width
  for `%c` and `%s` is ignored, and `%p` is 12 digits without `0x` (`ReadsBack` states
  klib's layout).
- sperf stops at an assert when more than `CALL_SZ` different names come, and only then
  (`TableExact`).

## Proofs

The theorems hold for every value of the constants that satisfies the named
assumptions of the modules, which TLC evaluates in each run. Each rests on an
inductive invariant: a theorem `Spec => []Inv` is proved from `Init => Inv`,
`Inv /\ [Next]_vars => Inv'` (with one lemma or step per action) and
`Inv => Property`.

| Module | Theorem | Property |
|---|---|---|
| `PmmProofs` | `Invariance`; `TypeCorrect`, `BlocksDisjoint`, `SingleOwner`, `Exclusion`; `SlabsKept` | `IInv`; `TypeOK`, `NoOverlap`, `OneOwner`, `MutualExclusion`; the action property `SlabsStay` |
| `PmmTheorems` | `NoAssertFails`, `SlabsAlwaysSound`, `NothingLost`, `NullMeansFull`, `AllocatorKeepsPromise` | `AssertsHold`, `SlabsSound`, `NoLeak`, `NullOnlyWhenFull`, `Refines` |
| `InputProofs` | `SemaphoreExact`, `RingInOrder`, `KeysTyped` | `SemExact`, `InOrder`, `TypedAsPressed` |
| `TtyProofs` | `RenderedAsIs`, `TextComplete`, `DisplayComplete`; `CursorOnScreen` | `Frozen`, `TextShown`, `Displayed`; the invariant `TtyInv` |
| `MachineProofs` | `BootOneAtATime`, `DiskIsBytes`, `RingKeepsKeys`, `PipeKeepsSamples` | `OneAtATime`, `DiskExact`, `KeysKept`, `AudioKept` |
| `CookProofs` | `RingKeepsPromise` | `Refines` |
| `ContextProofs` | `ThreadsResume`, `EventsMatch`; `SpacesShown`; `TablesKept`, `MapsAsTold` | `RunsAsSaved`, `EventMatches`; `NativeShows`; `TablesExact`, `X86Maps` |
| `ProgramProofs` | `PoolKept`, `WaitersWoken`, `AlwaysOneToRun`; `OwnAnswers`; `ScanFits` | `PoolExact`, `WaiterSound`, `NoHang`; `AnswersOwn`; `RoomSuffices`, the part of `TreePrinted` about the array |

### Pmm

The assumptions are facts of the code's constants. NULL is no page, no block and no
number; each thread has a CPU; a small size is the size of its class; the first free
node of a slab lies between header and page end, and ends where the page does
(object sizes divide the page); the entries of `Meta` that a large request can look
at exist; the heap is no larger than `Meta` describes; a request gets at least its
size, in a length that the alignment it wants divides.

`NoOverlap` is not inductive. Two objects of one slab are disjoint because a free
node never meets an object in use (`FreeInv`), and carving gives away a part of a
node. That a freed object goes back as a node of the right length needs `BlockInv`
(an object in use has its slab's size), and that needs chains of one object size
(`HeadInv`, `ChainInv`, `CursorInv`). Page runs are disjoint because `Meta`
describes each block in use as one allocated run (`BlockInv`) and `try_alloc` saw a
free one. Between reading and writing, what was read stays true (`SnapInv`), because
the lock is held (`MutualExclusion`), and which lock that is depends on the program
counter and the locals (`LocalInv`). A page that `add_slab` has taken and not yet
initialised is nobody else's (`PendingInv`). There is one lemma per action, and
lemmas on what carving and inserting do to a list (`CarveList`, `InsertList`) and
what marking and clearing do to blocks elsewhere (`SlowAllocFrame`, `MetaFrame`,
`FreeRunMisses`).

The other invariants are inductive beside `IInv`, each on its own:

- `WholeInv`: nodes and objects are aligned, whole objects. With `ApartInv` (no slab
  is reached twice) it gives `SlabsSound`.
- `SpaceInv`: each payload byte of a slab is in a node or an object, each page in use
  in a block or a slab. It gives `NoLeak`; that no byte is in both is `IInv`'s.
- `FullInv`: what the first-fit loop found taken stays taken until the unlock, which
  gives `NullOnlyWhenFull`.
- `ChartInv`, `TailInv` and `FreshInv`: a chain belongs to one CPU, `add_slab` is at
  the end of it, and its new slab is untouched. They give the two asserts of
  `AssertsHold` about `add_slab`; the others are in `SnapInv`.
- `FitInv`: `G_alloc` takes a run at a multiple of its length.

`NoAssertFails` assumes `OneThreadPerCpu`: only one thread of control allocates on a
CPU, as in the kernel at this commit, which has neither threads nor an interrupt
handler that allocates. It is needed: with two on one CPU both can append a slab to
the same last one, or the one can use up the slab that the other has just linked.
The runs of `Pmm` have one thread per CPU.

`AllocatorKeepsPromise` is the step simulation of `PmmSpec`. A `kalloc` takes effect
when `slab_alloc_take` or `G_alloc_take` writes, a `kfree` at `S_free_link` or
`G_free_clear`; every other step is a stutter or the call or return itself
(`Granted`, `Refused`, `KallocSim`, `KfreeSim`, `QuietSim`). It assumes
`HeapEndAligned`: no run that starts at a multiple of its length in the heap ends
past it. Without that it is false, see Findings.

### The others

- Libco. The invariant relates `POOL`, statuses, waiters, targets and owners
  (`Pooled`, `Held`, `Waits`, `Wakes`, `Forest`). That a slot is free for `co_start` is a count
  (`PoolAssumption`: no more coroutines than slots). That the scan finds someone
  follows from the waits-for relation being well founded, since one waits only for
  coroutines one has started: from any waiting coroutine a chain leads to one that
  runs. `CoAssumption` only says that there is a main coroutine and NULL is none.
- Input. `SemExact` is inductive together with who holds the lock and
  `TickOnEmpty`: a ring that looked empty to the daemon, in a read without the lock,
  stays empty until its push. `TypedAsPressed` needs that the driver's flags and the
  codes still in the keyboard together give what is held (`FlagsLag`), and that each
  code in the queue says what was held after the one before it (`CodesChain`).
- Tty. `TtyInv`: who scrolls, draws or clears has the lock, and the cursor is behind
  the last cell only between a character and the scrolling. `PutStep` says that
  `tty_putc` marks each cell it changes, for lines and columns of any number. With
  writers on one tty (`TextInv`), unmarked cells are good while nobody has the lock;
  between the drawing and the clearing all cells are, which is why marks that fall in
  between lose no text; and marks stay only while somebody is on the way to draw
  them. With the daemon alone (`AloneInv`), cells that are not exactly as drawn are
  marked, except the one that `blink` has turned and marks in its next step.
  `TextComplete` and `DisplayComplete` are about the specification that the run
  `tty_display` checks; `TextComesThrough` and `DaemonShowsAll` say the same of `Spec`
  with the condition as a hypothesis: all tasks work on tty 1, or no other task
  writes. Without it the property is false, see Findings.
- X86Boot. Three phases by the boot record: processor 0 alone; then, while it says
  boot, processors below the loop's counter are up and those above wait for their
  STARTUP (`InTurn`); and once a halt has changed it, nobody enters the boot sector
  any more, and at most one is still in it (`Ending`).
- Sd. While requests do not overlap, the request under way relates the image, the
  buffer and the reference block by block (`SdInv`); the arithmetic of offsets within
  blocks is proved for every block size. The image's content and length are
  arbitrary. With overlap only the frame is left: a block that no request's range
  meets is stored by nobody.
- NativeIoe. The ring holds the codes of the events that are due from `key_f` on, and
  never all its places (`RingInv`). For the pipe there are three invariants, each taking
  more for granted than the one before. Always: what the callback is to take is no
  more than its stream holds, or `count` was stored between its two loads, because
  until then only `count = 0` can have changed it downwards (`NreadInv`). Unless an
  update of `count` was lost: `count` is what is in the pipe, and what the callback
  has in hand, without what the writer has not added yet; so the callback reads all it
  wants at once (`CountInv`). And if no write was cut short: what was played, the
  callback's buffer, the pipe and the bytes still to be written are, in this order,
  what was written (`BytesInv`), with gaps only where a callback took too much.
- X86Cte, NativeCte. The frames of a thread are one of its own code and above it
  those of interrupts that came in the stub; each says how far the thread had come,
  none makes it forget or repeat work; a thread's stack is used by one processor; and
  CR3 and `rsp0` (the list of pages and `ksp`) are the thread's from the return to it
  until the next handler. `MaxNest` bounds TLC's runs; the theorem holds for any.
- Cook. `RingKeepsPromise` is the step simulation of `TtyLines`. `finished` is found by
  counting the '\0' in the ring, and a ring is a line longer or shorter after a step;
  so the proof works with a sequence `e` of the places where the lines end (`Marks`):
  the bytes held are the lines between them and the draft after the last, and there
  are as many of them as `cooked` says and as readers that are past `sem_wait` and
  have not yet taken theirs. That gives `Finished` and `Draft` without the `CHOOSE`
  that defines them. `Edged` says why a backspace does not reach into a finished
  line, and why it erases nothing from an empty ring: the byte at `rear` and the one
  before `front` are '\0', stale as they may be. Lemmas: how the bytes held change
  when one is pushed, popped or a line is taken, whatever the wrapping; which
  sequence of ends then marks them. The capacity, the characters and the number of
  readers are arbitrary.
- NativeVme. The list of a space is complete, with each mapped address once, or it has
  no end, and then an address was mapped twice (`Complete`, `Endless`). A list is
  described by the sets closed under `next`, so that no induction along it is needed:
  a new head adds one element to the least such set, and a second `map` of an address
  closes the ring. `is_mapped` is set just for the pages that the process of the
  space's processor has (`ShownBy`), since no two processors are in one space
  (`Alone`); so what is unmapped in a switch is all there is.
- X86Vme. `Mem`: each live space has a directory with the kernel's entries copied, its
  tables hold what `map` writes, and a page is a directory, a table at one index of
  one space, a kernel page or data, and only one of these (`Apart`, `TakenBy`). It is
  stated of a memory given as parameters, because `map` is two changes: the table
  that `ptwalk` adds is empty, so nothing new is reached (`WalkMem`), and the entry
  written is in a table of no other slot, so it is reached at one address of one
  space (`StoreMem`). `TablesKept` and `MapsAsTold` both follow. The assumptions say
  that user and kernel areas do not share an index of the directory, that there are
  pages enough for `vme_init`, and that NULL is no index and no mapping.
- Pstree. The processes that the second scan has still to come to, and the entries
  filled, are together no more than those counted and those created since
  (`Loading`): a new process has a number that no scan has passed. What the recursive
  printing shows stays with TLC.
- Crepl. While a session has loaded no foreign library, what it has open is a part of
  its own file, and in that file only the line at hand has the number of its wrapper
  (`CreplInv`).

### Only model-checked

- Liveness (`Drains`, `Served`, `KeysTaken`, `EventsRead`, `LinesRead`, `AllStart`,
  `WorldStops`): the prover has no rules for fairness.
- What recursive definitions and folds compute for every input (`ReadsBack`, `DivMod`,
  `RequestFits`, `TableExact` and the printing in `TreePrinted`): the prover cannot do
  induction over data, and `Rounding` and `Int64` need bitwise operators.

## Not modelled

Listed with reasons under "components" in `PROJECT.json`. Left out for good: the table
of devices, `amgame`, the test drivers, the stubs for nemu, the font, port I/O and the
other devices of `qemu/ioe.c`, descriptor tables and boot assembly, the relocation of
the program in the native `platform.c`, the native `mpe_init` (a fork per processor),
klib's string functions and its `malloc`; `os.c` and `kmt.c` have no behaviour at this
commit. Within the modelled parts: the stacks and saved contexts of libco,
`input_write` (returns 0), the welcome text of the ttys, textures and colours, and the
length of the texts that crepl and sperf handle.

Weak points that no property is about, because the models assume them away:

- `S_init` does not test the result of `G_alloc` (`pmm.c:103`); the model assumes a heap
  with a page for every CPU and class, as the supported machines have. The native
  `map` does not test its page either (`native/vme.c:99`).
- A second `co_wait` on one coroutine overwrites its waiter (`co.c:93`), and with `POOL`
  full `co_start` returns a coroutine that never runs (`co.c:88`); programs keep to what
  the library's tests do.
- The daemon's unlocked read of the cursor can give a mark one element past `dirty`
  (`dev_tty.c:316`); the model contains the step, and pmm rounds the block up.
- A kernel context without CR3 leaves the address space of the thread before in use
  (`qemu/cte.c:95`), which only matters if that space is given up meanwhile.
- The native `hcreate_r` takes the hash table from one process's heap
  (`native/vme.c:43`).
- crepl formats a line of up to 4095 characters into 1024 (`crepl.c:80`), and sperf reads
  `line[-1]` of a line without `<` (`sperf.c:95`): texts are abstracted.

## Plan

1. Input, Cook and Tty composed, from the interrupt to the line a task reads.
2. The native machine's memory: what is shared by the processes and what `fork`
   copies, for the hash tables of the page maps.
3. The four levels of the 64-bit page tables, as a chain of tables in the invariant.
