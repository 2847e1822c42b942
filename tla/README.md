# A TLA+ verification of OS/Z

OS/Z is a microkernel: device drivers, services such as FS and UI, and
applications are tasks that communicate only by messages through the core. This
directory holds TLA+ models of the core, the FS task with its FS/Z driver, the
PS/2 driver with the user interface, the C library and the image builder, TLC
runs on small instances, and proofs that TLAPS checks for every instance.
Definitions keep the names of the functions they translate; `PROJECT.json` maps
each one to its source lines, and lists the hazards with the properties that
cover them.

## The system and what is modelled

| Part | Source (under `src/`) | Modules |
| --- | --- | --- |
| scheduler, timer queue | `core/sched.c`, `core/tcb.h` | `Sched`; alone in `PickOrder`, `TimerQueue` |
| message queues | `ksend` (`core/x86_64/libk.S`), SYS_recv (`isrc.S`) | `MsgRing` implements `MsgFifo`; `Fifo` |
| system calls, interrupts, end of boot | `core/x86_64/isrc.S`, `isrs.sh`, `isr.c`, `sys.c`, `core/msg.c`, `core/service.c` | `Kernel` on `Sched` and `Fifo` |
| physical and virtual memory | `core/pmm.c`, `core/x86_64/vmm.c`, `task.c`, `core/service.c` | `Pmm`, `Memory` |
| interrupt stubs, controllers, timer calibration | `core/x86_64/{ibmpc,acpi}/isrs.S`, `isr.c`, `pit.S`, `rtc.S` | `Isr` |
| PS/2 driver | `drivers/input/ps2` | `Ps2` |
| user interface | `ui` | `Input`, on `Isr` and `Ps2`; `InputEvents` |
| FS task | `fs` | `Fcb`, `Devfs`, `Vfs`, `TaskCtx`, `FsTask` |
| FS/Z driver | `drivers/fs/fsz/main.c` | `Fsz` |
| library: allocator | `lib/libc/bztalloc.c` | `Heap` |
| library: files, messages, dispatch; access control | `lib/libc/stdio.c`, `dispatch.c`, `x86_64/stdlib.S`, `core/security.c`, `core/msg.c`, `fs/main.c` | `Rpc` |
| library: sort | `lib/libc/qsort.c` | `Qsort` |
| library: strings | `lib/libc/x86_64/string.S`, `lib/libc/string.c`, `core/x86_64/libk.S` | `Strings` |
| log of the core | `core/syslog.c` | `Syslog`; with the library: `Libc` |
| image and disk builder, boot image | `tools/mkfs.c` (top level), `core/fs.c` | `Mkfs`, `Disk` |
| ELF loader, run-time linker, start of tasks | `core/elf.c`, `core/service.c`, `isr.c` | `Elf`, `Image` on `Mkfs` and `Disk` |

A module named `MC...` gives the constants of a module their values for TLC, and
one named `...Proofs` holds theorems and their proofs.

The parts are modelled at the seams the system itself has. The core's handlers
run with interrupts disabled, so `Kernel` sees queues as the FIFO that `MsgRing`
is proved to implement. A task serves one message after another, so `FsTask`
has one step per message, and `Rpc`, which has the way of a request to FS and
back, takes any outcome for what FS does. `Input` composes the controllers, the
stubs, the driver, its queue and the user interface. `Image` composes the
builder with the loader: the core links its tasks from an image that the model
of `mkfs` has built.

## How state and actions correspond to the code

**Sched, Kernel.** The functions of `sched.c` are called several in a row with
interrupts disabled, so each is an operator from a scheduler state (the heads
and cursors of the ccb, links and states of the tcbs, `isr_next`) to the next.
In `Kernel` a handler is an action: `Recv`, `RecvBlock`, `Yield`, `Send`,
`SendRefused`, `Alarm`, `SetIrq`, `Ack` for calls of the task `cur` whose
address space is mapped, `Timer` for `isr_irqtmr` with `isr_timer`, `Interrupt`
for `isr_irqN`, and `Load`, `sys_enable` and, inside the first pick of the idle
task, `sys_ready` for the boot. A task keeps calling while it executes, whatever
its state field says. A `sched_alarm` that would not return sets the mode "hung".
A task's pid and memroot are one name; messages are a line number or "msg";
times are in alarmsteps and seconds relative to now, and all alarms of past
seconds are just overdue (`NextSecond`), as `sched_alarm` only compares them with
alarms to come. `owed` is not a variable of
the core: the lines a driver has received and will ack.

**Memory.** `m` is the manager's record, the page tables and the tcbs. `Start`
boots: `pmm_init` on one of the memory maps, then one task after another with
the pages of `task_new`, its text and data, the environment, its first bss page
and what `service.c` maps for its kind. Then `mmap`, `munmap` and `swapbuf` in any order. Running out of
memory is the mode "panic" (`kpanic`).

**Fcb, Devfs, Fsz, Vfs, TaskCtx, FsTask.** The memory of FS is one record `s`
that operators take and return. `Query` takes a request and serves it to its
end, as the main loop does: the answer, the kept request when a block is
missing, and the messages to drivers. `DriverRead` answers with a block, in any
order; the kept request is then served again from its start. `opendir` of a
union with a joker takes two requests, as in the library: `Opendir` asks the task
for the directory before the joker and `OpendirRead` opens the union with the
members read from it. Where the code
loops for ever `s.mode` is "hung". A path is the sequence of its names.

**Isr, Ps2, Input.** `Isr` has the 8259 pair and the IOAPIC with the APIC as
external devices and the stubs of each platform as actions; a stub behind an
interrupt gate is one step, and an exception, behind a trap gate, two: an
interrupt may come in between. `Ps2` steps through the driver by its port and
message operations. The UI handles a message per step. `InputEvents` has
a reading of all that was typed and moved, to compare the events with.

**Mkfs, Disk, Elf, Image.** `mkfs` takes one directory entry per step, in each
of several orders of `readdir`, then runs commands on the image; sectors are
records that say what they hold. A file that needs more than one level of sector
directories ends `mkfs` (`TooBigExit`). The core then starts a task per step:
loading, needed libraries, relocation, interrupt handlers and start code. An
executable is a header unit, `e_machine`, and units of text and data; loading it
sets `e_machine` in the image to 255 and linking a handler called `irq` reads the
line from there. A text that does not fit the table (`maxtext`) ends in "panic".

**Heap, Rpc, Qsort, Strings, Syslog, Libc.** An allocation runs under the arena's lock and is one
step. In `Rpc` a library call is its send, the server's receive, memory query,
service and answer, and the return. `Qsort` takes one iteration of a loop. `Strings` runs a function on one of several
memories, and `Syslog` writes one message per step. They share only errno, so one
of them runs at a time.

## Runs

All pass but the last. A composite property is named with the parts it is the
conjunction of; the parts are commented where they are defined.

| Run | Properties | Shows |
| --- | --- | --- |
| `kernel` | TypeOK, QueuesWhole, LinksMirror, RunsRunnable, NoLostWakeup, IdleOnlyWhenIdle, MaskedIsPending | with a driver of two lines, two services and an application: queues stay whole and linked both ways, only runnable tasks run, no wake-up is lost, the idle task runs only when nothing else can, a masked line always has a message or an ack to come |
| `kernel_live` | NoStarvation | without drivers and sleepers, every runnable task gets the CPU again and again, whatever is sent |
| `kernel_sleepers` | QueuesWhole, SleepersWake | a sleeper wakes while others stay busy and sends are refused; queues stay whole |
| `msgring` | HeldIntact, RefinesFifo | the ring implements the FIFO of `mq_size - 2` messages; the slot a receiver holds is not rewritten before an overflow |
| `timerqueue` | AlarmsSound (TimerqSound, AlarmEnds, BoundedLateness), SleepEnds | the timer queue stays sorted and whole, insertion ends, a sleeper is late by less than a tick per other task, every sleep ends |
| `pickorder` | SlicesFair (RoundRobin, IdleLevelLast), NeverStarves | round robin within a level, no starvation above the idle level, the idle level last |
| `memory` | PagesAccounted (UsedOnce, FreeIsFree, CountsExact, NoLeak, LinkmemExact), MappingsStay (AreasStay, ScreensStay) | free pages are free, no page has two uses, counts are exact, unmapping leaks nothing, a mapped area keeps its pages, the two screens stay two |
| `fs` | FilesCounted (RefsCounted, OneOwner), FilesTrue (FilesUnique, PathsTrue), ReadsFile, BlocksSound (CacheSound, KeptIsAsked, RamdiskFits), ServedAlone (Isolation, OneAnswer), Answered | reference counts are exact, exclusive devices have one owner, a file has one control block whose path is true, reads give what the file holds, no request waits for a block nobody was asked for, tasks do not disturb each other, and every request gets one answer |
| `image` | FilesAsOnHost, MetadataTrue (SectorsOnce, ChecksumsHold), TasksLinked (Linkage, LibrariesFirst, IrqsToDrivers, SymbolsAgree), PagesApart, DiskLayout | a file of the host is found in the image with its content, by `mkfs` and by the core; sectors, links and checksums agree; every task is linked as the order of its libraries says, without touching another task, or the image but for `e_machine`; a line goes to the first driver with a handler for it, unless a driver with a handler `irq` took it; the partitions of a disk are where its tables say |
| `input` | TimerSound (CalibratesOnePeriod, DivisorsFit, ClockRuns), ContextKept, NoLineStuck (NothingInService, NoByteStranded), EventsTrue (KeysDecoded, PacketsWhole, ResetByThreeKeys, ShapeFollowsButtons), BytesRead | on three timers of two platforms: the calibration measures one period, the clock does not stop, faults and switches keep a task's registers, no line stays in service, no byte stays in the controller, keys and mouse packets arrive whole and in order, and every byte is read in the end |
| `libc` | HeapSound (BitmapExact, BlocksApart, MappedExactly, WritesOwn, BlockReady), CallsOwn (AnswersOwn, DataIsMine, ReturnsOwn, ResultFresh), SortedOutside, TextRight (CopiesRight, ComparesRight, SearchesRight, TokensRight), LogWhole, CallsReturn | blocks are apart, aligned, cleared and backed, and memory goes back at once; every library call returns with the result of its own request while one task calls FS; `qsort` sorts; copies, comparisons, searches and tokens are right; the log reads as its lines |
| `libc_lost` (violation) | CallsReturn | with two tasks that call FS a request is lost: `meminfo`, which FS calls before it serves a message, takes the next message for its answer. `docs/messages.md` promises a blocking call that returns the result |

## Bounds

- `kernel`: one task of each kind (a driver, two of one level, one lower), and a
  queue of two messages that overflows. `kernel_live`: queues of one message,
  so every second send overflows. A quantum of two ticks has a tick that
  switches and one that does not.
- `pickorder`: three tasks of one level, the least number with which a misplaced
  cursor skips a task, one below and one in the idle level.
- `timerqueue`: three sleepers and three alarm steps per second, so that seconds
  change while tasks sleep and a task is inserted first, last and in between.
- `msgring`: `mq_size` 5, which wraps and overflows in every position.
- `memory`: pages of two bytes, tables of four entries, slots of four pages,
  four tasks, 120 pages, six memory maps, four calls: tables fill, are shared by
  two areas and become empty.
- `fs`: fourteen file control blocks, five cache lines, two tasks and scripts of
  requests for descriptors, paths, reading, a disk and low memory.
- `image`: sectors of four units, a sector directory of four entries, programs
  of a few pages, at most four orders of `readdir`.
- `input`: three bytes of the keyboard, two packets of the mouse, or one of
  each; queues of three messages, loops of the calibration up to three.
- `libc`: words of four bits, pages of four units, chunk tables of three; all
  arrays of up to four elements over three keys and of seven and eight over two,
  and patterns of 9, 13 and 41 elements, which reach every choice of the pivot.

No run uses symmetry. The deadlock check is off where a script of inputs or a
bounded number of calls ends.

## Fairness

- `Kernel`, `TimerQueue`: weak fairness of the timer only. It is hardware that
  the core does not mask after `isr_fini`, and its handler always ends. Nothing
  is assumed of tasks and devices. In `PickOrder` the one action is fair.
- `FsTask`: a driver answers the request it was sent. FS itself takes messages
  as they come.
- `Input`: the timer and pending interrupts are delivered, and the driver, when
  awake, gets the CPU again and again, which `kernel_live` shows of the core.
- `Libc`: a client, FS and a service that can take a step take it, for the same
  reason.

## Proofs

The theorems hold for every value of the constants that the named assumptions
allow: any finite set of tasks with any priorities, any lines, sizes and scripts.

**SchedProofs.** Every operator of `Sched` keeps `Sound`: links mirror each other,
stay inside one level and lead to a cursor of their own queue, and there is a rank
that grows along `next`, which excludes cycles. From `Sound` follows that a queue is
whole (`SoundHolds`): the tasks reached from a head stay different, as ranks grow,
so by counting the walk ends, and the task of least rank that it missed would have
a predecessor that it missed too. An induction along a queue is written with the
least number for which a claim fails (`NatMin`).

**KernelProofs.** `TypeCorrect`, `LinksStaySound`, `QueuesStayWhole`, `NoCycles`,
`NoWakeupIsLost` and `IdleMeansIdle`, for systems that are `Disciplined`: a task that
sleeps makes no call before its sleep takes effect, and a send that is refused is
one of a task to itself. `OnlyRunnableRuns` is for no sleepers and no refused
sends. The invariant `IInv` adds to the properties `Sound`, that nothing is blocked
and no line is unmasked while booting, that afterwards every task is loaded, and
that an unmasked line is routed. There is one lemma per action.

Its second part is about device interrupts. `NoLineIsLost`: `MaskedIsPending` in
every behaviour in which no driver's queue drops a message. `NoLineIsLostWithRoom`
shows that there is no other behaviour if the queue has a place for each line and
no task sends to drivers (`RoomForLines`): the queue of a driver holds masked
lines, each once.

**OrderProofs.** `SlicesAreFair`: round robin within a level and the idle level
last, while tasks are created, block and are awaken. The invariant gives each
queue a ranking with integers, so that a new head gets one below the old head's;
of two tasks of a level, one that the other has not passed comes first in the
order that the cursor cuts out of the ranking.

**TimerProofs.** `AlarmsStaySound`: the timer queue is sorted and whole, the
insertion loop ends, and no sleeper is late by as many ticks as there are tasks.
The invariant has the place of each sleeper in the queue. Of an alarm to come, the
time it is set to and the time that is left agree; an overdue one waits only for
the tasks before it, because a new alarm goes behind it and every tick takes a
task from the head.

**MsgRingProofs.** `TypeCorrect`, `HeldStaysIntact` and `ImplementsFifo`, for every
`mq_size > 2`. The invariant adds where the held slot lies: just before `mq_end`,
unless a message was lost.

**LibcProofs.** `LogStaysWhole`, about the steps of `Syslog` on their own: the log
reads as its lines, for every log and all messages that keep to the reserve.
`SortsEveryArray`, about the steps of `Qsort`: for arrays of every length and any
integer keys, no element is lost and those outside the open parts are in order.
The invariant `Sorting` says that the parts lie one behind the other and two elements
that do not share a part are in order (`Apart`), and for the current part what the
loop that runs has established: `Ordered` up to the element to insert, or `Scanned`, the
four zones of equal, smaller, greater and equal keys around what the scans have not
seen. Each loop only moves elements inside the current part (`Moved`), which keeps the
rest, and the two exchanges of the equal keys turn the four zones into three
(`GatherMoves`), of which the outer two are the new parts. Assumed is that keys are
integers (`ArraysAssumption`): `cmp` is their difference and does not overflow. That the
sort ends is not proved.

**InputProofs, ByteProofs.** All theorems rest on `Bases`: what the boot sets and nothing
changes, the shape of the variables, and `Sane`, no line in service between steps.
- `ContextsStayKept`: a task that is not in a stub which never ends has its
  registers, in the CPU if it runs and in its save area if not (`Contexts`).
- `TimerStaysSound`: `Calibrates` relates the registers of the calibration loop to
  the number of ticks, and `Clock` says which interrupts of the timer are to come.
- `NoByteIsLostWithRoom`: in every behaviour in which no SYS_IRQ and no ack finds
  the driver's queue full (`RoomToTell`), a byte in the controller is announced in
  exactly one of three places: the request of its line, one message, or the driver
  about to read; and a line is masked from its stub to SYS_ack (`Lines`). It follows
  too that the driver never finds the buffer empty (`ReadServes`). Assumed is `Wired`:
  both lines have the driver, and the IOAPIC has pins for them.
- `NoByteIsLost`: with more places in the queue than bytes are typed and packets
  moved (`RoomForAcks`) there is no other behaviour. What waits for the driver and
  the user interface are acks or events for what was sent, the message of FS and one
  for the byte in the controller (`EventCounts`, `MessageCounts`). In the run `input` the
  queue has as many places as bytes, one less than this asks for, and that is
  enough there too.

The invariants were model-checked before they were proved.

Only model-checked:
- liveness, which is out of the prover's reach: `NoStarvation`, `SleepersWake`,
  `SleepEnds`, `NeverStarves`, `Answered`, `BytesRead`, `CallsReturn`;
- `Memory`, `FsTask`, `Image` and `Strings`: their page tables, paths, directories,
  symbols and strings are computed by RECURSIVE operators, which the prover does not
  accept;
- `EventsTrue` and `HeapSound`: what they compare with is computed
  by filtering and folding, about which nothing can be proved without
  induction over an operator;
- `CallsOwn`, of which no theorem has been written.

## What the models leave out of their inputs

The code has cases that its authors left open. Where a property would fail for
one of them alone, the inputs leave it out, and the property says nothing there.

**Kernel.** In `kernel` tasks do not sleep and buffers are not refused.
`MaskedIsPending` is checked where only interrupts reach the driver's queue, so
that it does not overflow. The sleeper of
`kernel_sleepers` gets no messages, for a task that is awaken early stays in the
timer queue, and refused sends are those of a task to itself.

**Memory.** Mapped areas do not overlap live ones, live areas are unmapped, and
heaps stay in one page directory. What is unmapped in slots is whole slots:
`vmm_unmapbss` counts down to exactly 0 (`vmm.c:147`). The tasks that swap screens
map no areas of their own, so `swapbuf` meets `mmap` and `munmap` of other tasks.
The window of the log in the syslog task (`service.c:71`) is left out. The window of the initrd is whole slots: the
test at `vmm.c:86` does not check the alignment that its comment names. An empty
second part in `pmm_allocslot` loses the first (`pmm.c:137`), so fragments hold
at most what `freepages` counts. `pmm_free` does not check the capacity of the
list (`pmm.c:221`). Memory maps avoid an area of exactly `nrphymax` pages, an
unrounded end fragment (`pmm.c:352`) and an area inside the initrd.

**FS.** The queue of FS has one message when it receives (see `libc_lost`).
Drivers whose devices are in use do not exit, and no request makes the working
or root directory the last reference to a file that it frees (`main.c:250`,
`271`). Links do not form cycles, bucket collisions of
task contexts do not occur, and names are not prefixes of each other
(`fsz/main.c:225`). A joker is the only one of its union and its directory has
members: `fcb_unionlist_build` drops what follows a joker (`fcb.c:240`). No file system has a list of free sectors, as mkfs makes none:
`allocateblock` would write it over the sector that was read last
(`fsz/main.c:452`). Once memory was low `nomem` stays set, and requests after
that are kept: `Answered` does not speak of them. Modelled as they are: the union
that waits for the second request of `opendir` is remembered but not counted
(`main.c:562`), and `RefsCounted` does not count it either; a read
inside a block of a file with a sector directory gives the block from its start
(`fsz/main.c:357`; `ReadsFile` makes an exception of it) and a read may copy to
the end of the file (`taskctx.c:416`); `fcb_free` and, after a hit at the head of a
chain (`cache.c:83`), the cache may loop for ever
(`fcb.c:138`, mode "hung"); closing a writable descriptor answers an error, `O_RDONLY` on a
writable root gives EACCES, `dup2(a, a)` closes, `fsck` fails, and every write
ends with EROFS.

**Image.** A file of one empty sector gets no sector, for an initrd too, though
`mkfs.c:295` says it is not sparse; holes elsewhere in files of other partitions
misplace what follows (`mkfs.c:299`). Both, full directories (`mkfs.c:223`),
missing parents and duplicate names are not inputs. Nor are more than two pages
of relocations (`elf.c:583`, `613`) and unaligned ELF files (`elf.c:82`). Names that
are the beginning of others are inputs (`MCLonger`): `core/fs.c:73` takes the first
entry that begins with a name, which is the right one because `mkfs` sorts them.

**Input.** The model begins after `mouse_init` has read all replies. The IOAPIC
forgets requests of masked lines, so a byte that arrives before `isr_fini` stays
in the controller there; it is not an input. The interrupt before the `cli` of an
exception's stub, which may overwrite its frame, is modelled.

**Libc.** Sizes are up to a page or from a slot up (`bztalloc.c:239`), large
ones are powers of two (`335`), `realloc` never shrinks the quantum (`339`), and
sums do not overflow (`113`, `348`); no alignment is above a page. `HeapSound` says
nothing of what these exclude. Of `msg_allowed` the requests to the core and to the
video driver, `mountfs`, `setblock` and `devprogress` are left out. Queues have room
and data may be sent (`core/msg.c:106`, `113`, `141`); full queues and refused sends
are in `Kernel`. Clients wait for their answers; a client
that sends and does not wait would find a stray ack before the next answer.
Windows of message buffers do not wrap, and buffers do not cross a page
(`core/msg.c:101`, `103`). `opendir` frees before it tests errno
(`stdio.c:437`) and the first `readdir` tests an old one (`455`): modelled as it
is.

## Known disagreements

`libc_lost` is recorded as a finding. Other places where the code and its
comments or docs say different things, which the inputs avoid or the models
follow:

- `isr_next` of an interrupt preempts a driver (`isrs.sh:563`), which
  `docs/scheduler.md:33` and `isrc.S:325` exclude;
- a refused send has already switched to the receiver (`msg.c:86`, `sched.c:254`);
- `SYS_alarm` returns to its caller, which is blocked by then (`isrc.S:235`);
  the time of an alarm has no carry into seconds (`msg.c:251`);
- the alarm branch of the timer does not pick (`isrc.S:364`), so a task that
  sleeps again and again starves others, against `docs/scheduler.md:4`;
- string functions that do not do what their header says are left out of `Strings`:
  `memmove` begins one past the end when it goes backward, `strnlen` is off by one,
  `strchr` and `strrchr` count with a register they do not set, `strcasecmp` goes on
  while characters differ, `ffs` dereferences its argument, `strtok` never
  continues, `memrchr` misses the first place, `basename` and `dirname` drop
  a character;
- of four functions in `Strings`, `TextRight` leaves open what they do otherwise:
  `memmem`, with it `strstr`, misses a needle at the end (`string.c:71`), `kstrcmp`
  takes a beginning for the whole, `strcat` returns its end and `strcmp` has the
  opposite sign;
- a handler called `irq` gets the line that the driver's image has in `e_machine`,
  but `elf.c:135` sets that to 255 for every file it loads. The line is then what a
  loop has left in a variable (`elf.c:714`), and not that of the device, against
  `docs/howto3-develop.md:70`; `IrqsToDrivers` allows such a driver any line;
- the text of a task may grow to 1024 entries before `elf_load` panics
  (`elf.c:105`), twice what a page table has;
- when `opendir` of a joker is kept for a block in its second request, the request
  is served again as a first one, of the root directory (`main.c:545`);
- `changemime` leaves the end of a longer old type (`mkfs.c:909`), and the record of
  type 0x30 in the boot sector starts behind its partition (`mkfs.c:599`);
- a driver that exits leaves descriptors that name another file later, where
  `devfs.c:109` expects feof or ferror.

## Not modelled

- `SYS_exit` (it frees nothing and is six sends and a pick), `SYS_stime`, the
  entropy and random calls, access bits of pages, locks (one CPU runs);
- CPU set-up, firmware tables, PCI, the environment of the core, the
  debugger and disassembler, the aarch64 stubs: sequential code at boot or on a
  console, whose results are constants here;
- conversions, UNICODE functions and start code of the library, the framebuffer
  driver, the network stub, `init`, `syslog`, `sh`: no state, or nearly empty;
- in FS `SYS_tmpfile`, which looks up a name that is never written, and the
  storage branch of `readblock` for regular files; in the library `ioctl`;
- in `mkfs` listing, dumping and ROM conversion; `elftool`; the boot loader,
  which is a binary of another project;
- in `Input` the handshake of `mouse_init`, `keymap_parse`, whose only call is
  commented out, and spurious interrupts.
