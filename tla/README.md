# ggspc in TLA+

ggspc runs the PlayStation 2 games of the Guilty Gear XX series on Windows. It
recompiles the code of the Emotion Engine (EE) to x86, replaces the operating
system of the console by system calls of its own, and draws, plays and stores
through Direct3D, DirectSound, DirectInput and plain files. A debugger build of
the same sources adds breakpoints, patches, tracing and a static analysis.

This directory holds the specifications of the parts of it that are hard to
test, the TLC configurations that check them on small instances, and proofs of
the most important of them for instances of any size. `PROJECT.json` lists
components, runs, mutants, the source lines of every definition, findings,
hazards and theorems.

## 1. Inventory

| Component | Source | State | Operations | Hard behaviour |
|---|---|---|---|---|
| Recompiler code cache | `cpu/r5900.cpp`, `.h` | table from EE instruction to x86 address, code blocks with buffer, size, capacity, range | `recompile`, `execute`, `enable_break`, `clear_recompile_cache` | buffers grow, move and are joined while other threads will return into them |
| Instruction semantics | `cpu/r5900_*.cpp` | registers, HI and LO, the x87 | one generator per instruction | carries between words, 128-bit lanes, operands that are one register, what the x87 keeps |
| Macro recompile | `cpu/r5900_macro_rec.cpp` | - | two patterns | several instructions in one turn; a loop of the host that may be entered in the middle |
| x86 assembler | `cpu/x86macro.*` | write pointer | one macro per x86 instruction | - |
| Memory map | `memory/memory.*` | memory and the attribute table | `VA2PA`, `clear` | one cell under several addresses |
| EE threads | `thread/thread.*` | contexts, fibers, code pointers, return addresses | `create`, `remove`, `switchTo`, `updateX86Retaddrs` | switches in the middle of system calls |
| Semaphores | `thread/semaphore.*` | counts and maxima | `create`, `remove`, `signal`, `wait` | waiting is done by rewinding the program counter |
| System calls | `device/device.cpp`, `_syscall` in `cpu/r5900_special.cpp` | interrupt enable, interrupt thread, last blank count | `handleSyscall` | RPC end callbacks run EE code inside a call |
| Vertical blank | `device/device.cpp` `vbl_proc` | blank count | an OS thread counts | read twice by system call 0x2024 |
| OS threads, screen mode | `main.cpp`, `device/graphic.cpp` | stop flags, suspend count, frame and device state | launch, loop, `restoreDevice`, `toggleScreenMode`, end | polling, suspension, waits of two seconds |
| File load thread | `device/device.cpp` | request and busy flag in game memory | poll, claim, read, report | restarted by `openElf`, which also clears that memory |
| Graphics | `device/graphic.cpp` | entries of a frame, caches of images and textures | draw calls, `decodeAllImages`, end of frame | identities that name other data later; sorting that keeps no order |
| Audio | `device/audio.cpp` | effect ring, voices, the streamed buffer | two RPC services, `activate` | the end of a stream is found by asking in time |
| Memory cards | `device/memcard*.cpp` | open files, listings, what was told | two RPC services | buffered writes, the end of the process, descriptors |
| Movie decoder | `device/mpeg2dec.cpp`, calls 0x2020-0x2023 | two rings, reference pictures | load, decode, `get_pic` | wrap-around, order of pictures, headers across blocks |
| Input | `device/input.*` | devices, mapping | `update`, `getTargetState` | devices that are numbered in two ways |
| Settings | `device/setting.*`, `utils/ini.cpp` | settings files of each game | read, write, upgrade, backup | two programs, several versions |
| ELF loader | `elf.*` | image, symbols, strings, line table | `load`, sorts | variable-length numbers, rows of one address |
| Debugger engine | `debugger/debugger.*`, `breakpoint.*`, `patch_entry.*`, `debug_database.*` | points, patches, data bases | run, step, pause, patch, save, load | points live inside generated code that moves |
| Assembler, disassembler | `debugger/asm.cpp`, `disasm.cpp` | - | text and words | three tables written by hand |
| Expression parser | `debugger/expr_parser.*` | tree of a condition | parse, calculate | rules of its own for precedence, types and errors |
| Static analysis | `debugger/static_code_analyze.*` | map of what is used, labels | one pass | paths put aside, switches |
| Debugger windows | `debugger/gui/*`, `window.cpp` | lists, cursors, dialogs | key and menu handlers | pointers into data that is deleted elsewhere |
| Configuration tool | `cfg-src` | pages, controls | OK, Cancel, input page | edits the file a game may hold |
| Network | `network/*`, `utils/http.cpp`, `server/lobby.php` | nodes, lobby entries | receive and lobby threads | unused: nothing creates a `NetworkMgr` |
| Utilities, `dsLib`, `netsim-src`, tests | | | helpers, a separate tool | - |

How they interact: `execute` runs on the *execute fiber* and switches to the
fiber of the current EE thread, whose code returns to it by an x86 `ret`
whenever the next instruction has no code. A system call is a call from
generated code into `handleSyscall`; it may switch to the fiber of another EE
thread, or call EE code back. Several EE threads are therefore suspended with
return addresses into generated code while `recompile` moves that code. Besides
this there are real OS threads: the blank counter, the file loader, and in the
release build the execute thread, which WinMain suspends and stops. The devices
are driven by system calls and RPC services from the execute thread; each keeps
state of its own and they meet only in the game. In the debugger build the
window, the command and the EE threads are fibers of one thread, and the window
gets a turn every so many instructions. Settings are shared, through files,
with the configuration tool, which is another process.

What makes each component correct:

* code cache: each table entry is the code of its own instruction; code runs on
  to the next instruction or to a `ret`; suspended threads come back to where
  they left; writing stays inside buffers;
* instructions: what the x86 sequence does is what the EE does, for any
  registers; macros do what the instructions they replace do;
* EE kernel: registers, fiber and code pointer always belong to the same
  thread; the semaphore calls behave as counting semaphores; every thread gets
  its turn; one interrupt for each blank at most, and one at last;
* OS threads: nothing is used after it was freed; frames stand still while
  the device is reset; the execute thread is resumed as often as it was
  suspended; quitting ends;
* file loader: one loader; a request reported done is in memory; the busy flag
  means what it says;
* movies: each call shows the next picture of the film, whole; the film ends;
* sound: units of music are heard in order, once, to the last; the newest effect
  is heard;
* memory cards: what was read is what was written, what was flushed survives,
  a listing is complete, changes are told;
* drawing: each call is painted with the data it named, in the order of depth
  and of calls;
* input and settings: the buttons and choices of the user, as given;
* debugger: code is as it was when it stops; it stops where it was told, in time
  and at last; what it shows is what the assembler takes back; patches can be
  undone; conditions are read as in C; notes are neither lost nor confused;
  what is reached is marked; addresses and lines lead to each other.

## 2. Modules

| Module | Models | State |
|---|---|---|
| `TranslationCache` | what a code cache promises: a set of compiled instructions and, per thread, the instructions it comes back to | abstract |
| `CodeCache` | `recompile`, its callers, clearing, and the return addresses of system calls | table, blocks, local variables of `recompile`, frames |
| `CountingSemaphores` | what the semaphore calls promise to EE threads | abstract |
| `EEKernel` | threads, fibers, semaphores, interrupt thread, blank counter | contexts, fibers, code pointers, registers, counts |
| `AppLifecycle` | WinMain, its three threads, device loss, screen mode, stop and release | program counters, stop flags, suspend count |
| `FileLoader` | the file load thread and `openElf` | request, busy flag, loader states |
| `MoviePlayer` | what the decoder promises: the next picture at each call | abstract |
| `Films` | what the decoder takes for granted of a film: units, order of pictures, what a call reads | layout |
| `MovieStream` | the two rings, headers, pictures, references and macroblocks | rings, positions, references, target |
| `SoundDriver` | effects, voices, the short tune, streamed music | ring, voices, pages of the hardware's buffer |
| `MemoryCards` | both drivers over the files of the C library | open files, buffers, listings, directories |
| `RenderCache` | the entries of a frame and the two caches | entries, decoded images, textures |
| `Input` | devices found, the tool's input page, readings | file, mapping, devices |
| `Settings` | files of each game, game and tool, versions, backups | files and the copies in memory |
| `EEInteger` | integer and multimedia instructions | registers in words |
| `EEMemory` | loads and stores, the windows of memory | bytes |
| `EEMacroLoop` | macro 2 beside the seven instructions it replaces | three registers, memory |
| `EEFloat` | floating point instructions on the x87 | bits, stack, mode, flags |
| `Listing` | both listings, the assembler, the line editor | a word and the fields of the dialog |
| `Patches` | patch entries, files, dialogs | memory and entries |
| `Conditions` | elements, tree, values of a condition | a condition and its verdict |
| `Notes` | comments and labels, the reference window, files | data bases, entries, window, disk |
| `CodeAnalysis` | the static analysis | the map of slots, labels |
| `SourceLines` | `Elf::load`, and the code window between instructions and sources | rows and their orders, window |
| `Debugger` | commands, points, steps, pauses and patches over generated code | planted bytes, points, command |
| `MC*` | instances for TLC; `MCDevices` and `MCInstructions` combine the modules above | |
| `*Proofs` | theorems; `DevicesProofs` those about `Settings`, `MovieStream`, `RenderCache` and `Input` | |

### CodeCache

`recompile` is synchronous, one loop. Each turn is one `Emit` (lines 168-356:
table entry, code, range) followed by exactly one outcome: `JoinNext`
(359-442), `PlantRet` (444-448), `Finish` (460-466), `Grow` (469-496) or
`Proceed`. `rec` holds the local variables between the steps and is `NULL`
outside. The callers of `recompile` are actions that start it: `ExecuteMiss`,
`ExecuteJump` with `ExecuteDelaySlot`, `ExecuteBareSlot`, `CompileForBreak`.
An x86 address is a buffer and an offset; a cell stands for the code of one
instruction and holds its index, so that "this is the code of that
instruction" can be stated. `malloc` and `realloc` answer with any buffer that
is free (`Bufs` is the supply of heap addresses), so that a reallocated buffer
may stay, move, or move to where another was. A pointer into a freed buffer is
an address whose buffer is not `Live`.

`Breakpoints` and `Patches` are what the debugger build adds: recompiles of one
instruction, and clearing the whole cache.

Abstraction: all instructions produce code of the same size, and the number of
instructions a macro consumes is the constant `Span`. Where the code takes the
first block that ends where the request begins, the model takes any.

### EEKernel

Each system call is one action up to the point where `switchTo` leaves the
handler; the rest of the handler is `Resume`, on the fiber's next turn.
`fiber[t]` says where each fiber is suspended, `cpu` is `*g_cpu`, `ctx` the
saved contexts, `armed` the code pointer each fiber will call. `Execute` is the
loop of `R5900::execute` (which compiles whatever is missing) and `StartFiber`,
`LeaveCode` the two ways back to it. The interrupt thread's loop lives in a
binary of the game; its actions are known from the system calls it makes.
`ledger` is a history variable: the counts as the threads have been told.

### AppLifecycle

`main` is the program counter of WinMain; a thread is `new` until its first
statement, then alternates between the test of its loop condition and a turn.
Everything a turn of the execute thread may do to the screen is `StartFrame`,
`EndFrame` or `Idle`. `freed` grows as WinMain deletes managers and devices.
A wait of two seconds is longer than any turn, so that it expires only for a
thread that will not end by itself (`Expires`). `SlowStart` and `DeviceLoss`
say whether a thread may not yet have begun when it is told to stop and whether
Direct3D may lose its device.

### FileLoader

The thread's steps are the accesses to the memory it shares with the game:
test, claim, path, read, report, release. `openElf` clears that memory, tells
the thread to stop, waits, and launches another. Threads are numbered with the
program they were launched for. `Missing`, `SlowStart` and `SlowReads` switch
on files that do not exist, threads that have not begun and reads longer than
two seconds. In the debugger build the game does not run while `openElf` does:
both are fibers of one OS thread.

### The devices

A device runs on the execute thread, so a call is one action, except where the
code gives the processor back in between (the decoder, picture by picture) or
where hardware goes on by itself (`Tick` of `SoundDriver` moves the position of
the buffer). What the game may do is any legal order of calls.

*MovieStream.* A byte of the stream is a start code, part of a slice or data;
`m_buf`, `m_ptr` and `m_read_ptr` are the ring of the decoder, `src`, `unproc`,
`proc` and `procPos` that of the game. `LoadTurn` is a copy of the load call,
`Decode` a code that is no slice (`SequenceEnd`, `FirstPicture`, `SecondPicture`,
`OtherHeader`), `SliceHeader`, `NextByte` and `Macroblock` a slice with its
increments and escapes. A pixel is the number of the picture it comes from, so that a picture
is whole when its cells are all of its number. `onDisc`, `pos` and `fed` are
positions in the stream that no wrap-around confuses. Outside: the disc, which
keeps up (`ReadDisc`), and the films, of which `Films` says what the decoder relies
on; `MCDevices` finds the layout of its two from unit to unit, and TLC evaluates
`FilmAssumption` for them.

*SoundDriver.* Music is numbered units; a page of the buffer holds `PageSize`.
The game sends a page when it is told that one is free. `Racing` lets calls come
while `activate` is between its two steps on the thread of the window.

*MemoryCards.* The C library keeps the last write of a file in a buffer until a
flush, a seek or a close; the process may end at any time, and the buffers are
lost. `mc` keeps files open by descriptors, `mc2` reads and writes whole files.

*RenderCache.* An image reference names encoded data by an identity; what the
data show is a version. `gfxCalls` records the calls of a frame, `gfxPainted`
what the end of the frame has painted: of each call the identity and version of the
image its texture was made of, the palette that was mixed in and the offset. Textures
and images live `TTL` frames. A reference comes to name other data at any time between
frames; an identity gets a new version when the caches have forgotten it
(`Forgotten`), or also before (`Reused`).

*Input.* The configuration tool enumerates the devices, the user gives buttons
and sides, the file is written; the game enumerates again, reads the file and
reads the devices. DirectInput is external: it answers with what is attached.

*Settings.* A file holds one field of each version of the format. The game
reads it when it opens a program and writes it at its end or when it opens
another, the tool reads at its start and writes at OK. `chosen` is a ghost: what
the user of each game last chose. Compression is external, except that a file
that was cut off is never read to its end.

### The instructions

A generator is the sequence of moves it emits, on words of `4 * Bits` bits with
all widths scaled; the reference definitions say what the manual of the EE says,
on numbers. `EEInteger` has one operator per family (`WordOp`, `ShiftOp`, ...,
`MixOp`); `Run` takes any instruction on any registers, the same one twice
included. `EEMemory` runs pairs (an unaligned load is left and right, a store is
read again) through any window. `EEFloat` keeps the stack of the x87 with its
rounding mode, because an instruction that pops too little or leaves the mode
spoils a later one; numbers have `ExpBits` and `Fract` bits. `EEMacroLoop` runs
the loop of the host and the seven instructions, from any entry into them.

### The debugger's data

*Listing* shows each word by both listings, types each text into the line
editor, and writes the word. *Patches* applies, undoes, edits, joins, saves and
loads entries over a few cells. *Conditions* reads the signs of a tree, makes
the tree of the code from them and calculates it. *Notes* holds entries at
places that are taken again when freed, and a window of pointers to them.
*CodeAnalysis* follows programs of a few slots. *SourceLines* decodes line
tables assembled from the rows they mean, sorts them as `qsort` of the library
does on eight rows and fewer, and moves the window between the two views.

### Debugger

`bytes.rets` are the instructions whose code begins with a planted `ret`;
a point remembers whether it is planted and whether what it replaced was a
`ret` already. `Progress` is the command (`executeProc`) and the
program under it, `Window` what the user does when the window has its turn.
`stale` marks threads whose code was freed while they were suspended in it.
`KeepsToItsCode` says which programs are meant: they jump to instructions, and
what follows a jump is another one; `MCDebugger` assumes it of its program, so
that TLC evaluates it.

## 3. Runs

| Run | Instance | What it shows |
|---|---|---|
| `cache_threads` | 9 instructions, one macro of three, a branch, a breakpoint, 2 threads, 2 nested calls, 4 buffers that never grow by a step | `TableFaithful`, `RecompileFaithful`: table and return addresses survive appends and joins, and both assertions of the code hold; `RecompileEnds`; refinement of `TranslationCache` |
| `cache_growth` | 10 instructions, buffers of 6 cells growing by 4, 6 heap addresses, patches | the inductive invariant of the proofs, `WithinCapacity` and the fall-through of code (`FlowFaithful`) through growth and clearing |
| `kernel_semaphores` | 3 threads, 2 semaphores, interrupt threads, everything deleted and created again | ownership of code and registers; refinement of `CountingSemaphores` |
| `kernel_interrupt` | 3 threads, 1 semaphore, 2 blanks, with fairness | the inductive invariant of the proofs; one handler run for a blank at most; every blank judged, every thread scheduled |
| `app_lifecycle` | quick threads, devices lost by Present and by Reset, quitting at any time | `OrderlyEnd`, `ResetAlone`, `Ends`: nothing used after it was freed, frames stand still during a reset, quitting ends |
| `loader_reopen` | 3 programs, 2 files, with fairness | `LoadsInTurn`, `Served`: one loader; requests done are loaded; requests are served |
| `devices` | the six device modules side by side, one of them at work in a behaviour | see below |
| `instructions` | the instruction modules and those of the debugger's data, one at work in a behaviour | see below |
| `debugger` | 2 threads and 11 instructions: a call, a memory access, yields, an exception return; 2 points in 2 databases | `CodeIsRestored`, `StopsInTime`, `StopsWhereTold`, `StopsAtLast` |

Each property has a mutant, an operator before the definition it replaces (its
comment begins with "Mutant"), under which the run fails.

Some invariants join named ones, which the modules state one by one:

| Invariant | Parts |
|---|---|
| `RecompileFaithful` | `RetaddrFaithful`, `SlotIsEmpty` |
| `OrderlyEnd` | `TypeOK`, `NoUseAfterFree`, `EndsBetweenFrames` |
| `LoadsInTurn` | `TypeOK`, `OneLoader`, `LoadsTheRequest`, `DoneMeansLoaded` |
| `FilmIsWhole` | `MovieTypeOK`, `NothingLost`, `BlocksAccounted`, `ReferencesSurround`, `ShownWhole` |
| `HeardAsStarted` | `NewestSound`, `HeardInOrder`, `OverWhenPlayed`, `HeardInFront` |
| `CardsAreKept` | `OwnDescriptor`, `ReadsWhatWasWritten`, `FlushedIsKept`, `ListedWhole`, `ChangesTold` |
| `FrameAsDrawn` | `PaintedInDepthOrder`, `PaintedAsDrawn`, `NothingDangles` |
| `ChoicesServe` | `SettingsKept`, `InputAsPressed` |
| `IntegersAgree` | doublewords, branches, products, words as lanes, the laws of packed instructions, any registers (the same one twice) |
| `MemoryAgrees` | `UnalignedWhole`, `StoredIsLoaded` |
| `FloatsAgree` | results, comparisons, quotients and conversions are the nearest numbers with their flags; the stack is free again |
| `ListingAgrees` | `WrittenAsShown`, `ShownIsReadable`, `ListingsAgree` |
| `PatchesUndone` | `UndoneIsOriginal`, `AppliedIsThere`, no buffer overrun |
| `NotesKept` | `HeldOnce`, `ListedAsHeld`, `DeletedAsMeant`, `RowsFit`, `FoundAgain` |
| `CodeIsMarked` | `UsedIsReached`, `ReachedIsUsed`, `SwitchIsRead` |
| `SourcesAgree` | `DecodedAsMeant`, `LeadsToItsLine`, `LeadsBack`, `StringsAreFound`, `ImageIsTheProgram`; the line told of is in the page |
| `StopsInTime` | `OneInstruction`, `StopHasReason` |
| `StopsAtLast` | `StepEnds`, `PauseEnds` |

### Bounds

Every mechanism needs few participants. A join needs two blocks, a misplaced
return address one suspended thread and one block that moves, a nested call two
frames. Where realloc may move a buffer there is always one more than the blocks
that can exist. In `cache_threads` a recompile of four instructions meets code
that begins a block (a join), code in the middle of one (behind the macro), the
end of its count (stepped over by the macro) and an append at the breakpoint.
Three threads give a round robin in which the next thread is not the only other
one, and two semaphores with maxima 1 and 2 distinguish saturation from a binary
semaphore. Three programs make two restarts of the loader, the second against a
thread that was itself a restart.

*devices* (`MCDevices_calls.cfg`). The decoder's ring of `BufSize = 20` holds five
blocks, less than a film, so both rings wrap around several times; one film has
its B pictures between references in another order than it is shown, the other
ends in references only; slices step over macroblocks and use an escape; a
second film starts while the first is in the rings (`MaxResets = 2`). Two pages
of three units hold less than either song (5 and 7 units), one of which ends at
a page and one inside; three effects go round a ring of two, and the window goes
to the back and returns at any time. Two files, two descriptors and one entry to a
page run out of descriptors and list a directory in several calls. Images of two
identities behind two references, drawn twice a frame and kept one frame
(`TTL = 1`), expire between any two uses; the references change what they name, one
identity gets new data after it was forgotten (`MaxLoads = 1`), both images share a
dynamic palette, and one of them is drawn with its second part (`MCOffsets`), so that
entries and textures that are confused show. Two pads, two sides and the keyboard
let the index of a device differ from its place; the axes lie before, at and beyond
a sense. Settings of two games pass through four runs of game and tool, files of
the version before, of this and of the one after.

*instructions* (`MCInstructions_each.cfg`). A byte of one bit makes a register of
16 bits: all operations on words, with carries and signs across words, run over
pairs of operands that contain each sign, each carry and the extremes. Memory
is all pairs of a left and right access at each alignment, through each window,
with bytes whose top bits are clear, mixed and set. A float of four bits of
exponent and two of fraction has zeros, the smallest and the largest numbers,
halves for rounding, and sums that overflow and underflow; programs are one
instruction, or two where the first could disturb the second. The macro loop is
entered at each instruction, with counters before and behind each limit. The
listing takes every opcode, with registers and fields at their extremes and in the
middle. Patches are two entries over three cells, from the editor and from files.
Conditions are trees of up to three operands with every operator, over integers
of every size and sign, floats, registers and members. Notes are two data bases with a
place that is freed and taken again, and labels of several rows. Programs of the
analysis have five slots with each jump, or are a switch in each of its forms. Line tables
advance by every amount that changes the form of an opcode (special, `advance_pc`,
constant) or the length of its number.

*debugger* (`MCDebugger_commands.cfg`). Two points in two databases may lie at one
address, and a step or pause makes a third `ret` over it; a call gives step over
a place to return to, with a thread switch inside.

Deadlock is checked except where the system does stop: `kernel_semaphores`, where
a deleted thread may be scheduled, which is a NULL dereference (`fault`); the
runs of `AppLifecycle`, which ends by design; and `instructions` and `devices`,
whose behaviours end with their program or at their bounds.

The passing runs choose their instances so that a finding does not hide the
rest: the buffers of `cache_threads` need no growth by steps and its entries
stay clear of the end of the section, `cache_growth` has no suspended threads
and no macro, the threads of `app_lifecycle` have begun before they are told to
stop, and constants such as `Racing`, `Disturbed`, `Reused`, `Careful` and
`Liberties` keep the users of the other modules to what the code handles. What
happens beyond is the subject of the next section.

### Where the code does otherwise

These runs end with a counterexample; each is a disagreement between the code
and one of its own comments, messages or assertions (`findings`).

| Run | Property | What happens |
|---|---|---|
| `cache_stale_retaddr` | `RetaddrFaithful` | growth by a step moves code without the return addresses |
| `app_never_resumed` | `ResumedWhenRestored` | an error return leaves the execute thread suspended |
| `patch_running` | `NoStaleCode` | a patch is switched after a pause: the thread goes on in code that was freed |

The same modules show further disagreements when the constants of a passing
run are changed; they have no run of their own. Code and EE threads:

| Change | Property violated | What happens |
|---|---|---|
| `cache_growth`: the macro (`Span <- NopsAt3`) | `FlowFaithful` | a `ret` planted in front of code inside a block is not counted, and a later join loses it |
| `cache_growth`: one thread without patches, `CodeSize = 9`, `Entries = {0}`, a breakpoint everywhere | `WithinCapacity` | recompiles of one instruction never reach the capacity check |
| `cache_threads`: an entry less than `Amount` before the end | `SlotIsEmpty` | the loop runs into the slot behind the section |
| `kernel_semaphores`: `MaxThreads = 2`, `Interrupts = FALSE`, `Shapes <- Event`, `Deletes = {"thread", "sema"}` | `NoFault` | a deleted thread is started, or reached by the round robin |
| `app_lifecycle`: `SlowStart = TRUE` | `NoUseAfterFree` | a thread that begins late takes the stop request back |
| `app_lifecycle` | `ResetBetweenFrames` | a frame begins between the poll of its end and the suspension |
| `loader_reopen`: `Missing = {f2}`, `MaxOpens = 1` | `BusyMeansInUse` | a file that cannot be opened leaves the flag set |
| `loader_reopen`: `MaxOpens = 2` | `BusyMeansInUse` | a request is claimed after the memory was cleared |
| `loader_reopen`: `SlowReads = TRUE` | `LoadEndsInStop` | a long read outlives the wait for it |

Devices (changes to `devices`):

| Change | Property violated | What happens |
|---|---|---|
| none | `ShortHeard` | the short tune stays silent under music (audio.cpp) |
| `Racing = TRUE` | `HeardInFront` | a call between the two steps of `activate` leaves the volume of the wrong side |
| `Disturbed = TRUE` | `ListedWhole` | files that come and go are listed twice or never |
| `Ports = {0, 1}` | `ChangesTold` | memcard2 names a card by its port when asked for its space (memcard2.cpp:87), by its slot, always 0, for its files (145) |
| `Reused = TRUE` | `PaintedAsDrawn` | other data behind an identity in use shows the old image |
| an image with two `Offsets` for a dynamic palette | `PaintedAsDrawn` | the cache does not know the palette's offset (graphic.cpp:706-716, 987) |
| `Attached <- MCReplugged` | `InputAsPressed` | the settings keep the place of a pad in the list, which another takes |
| `WritesEnd = {TRUE, FALSE}` | `ChoicesServe` | a file that was cut off is inflated without end (ds_zlib.cpp:78-89, setting.cpp:148) |
| `OpensOther = TRUE` | `ChoicesServe` | opening a program renames the settings before those of the last one are written (screen_window.cpp:61-63, main.cpp:395) |
| `Together = TRUE` | `ChoicesServe` | a game that was running writes its old copy over the tool's (main.cpp:345) |
| `Shelves <- MCFirstVersion` | `ChoicesServe` | the upgrade from 0x0900 does nothing (setting.h:199-201) |
| `Shelves <- MCCameBack` | `ChoicesServe` | the backups of versions 1.0.0.0 and 1.0.0.2 share the name "100" (setting.cpp:135-147) |

Instructions (changes to `instructions`):

| Change | Property violated | What happens |
|---|---|---|
| `LeftInXmm = {0, 3}` | `HalvesInterleaved` | `pinteh` takes odd halves under a mask half of which is what was in the register (mmi3.cpp:59-76; test_r5900_mmi3.cpp:153-163 expects even ones) |
| a program `cvt_w`, `cvt_s` | `ConvertsNearest` | the mode "for the moment" (cop1.cpp:56-58) stays |
| none | `MacroIsTheCode` | the macro leaves 1 in r0 (r5900_macro_rec.cpp:105), the high word of r1, and compares signed |
| `FloatPrograms <- MCDivisions` | `QuotientSign` | a quotient written over an operand is stored before its sign is read (cop1.cpp:278, 285, 298) |

Debugger:

| Change | Property violated | What happens |
|---|---|---|
| `debugger`: `Careful = FALSE` | `CodeIsRestored` | a pause at a point in force, or deleting the point being stepped over, leaves a `ret` in the code |
| `instructions`: `Liberties = {"inside"}` | `PatchesUndone` | an edit inside a patch makes it wrong about what it replaced (patch_entry.cpp:52, line_edit_dialog.cpp:102) |
| `instructions`: `Liberties = {"over another"}` | `PatchesUndone` | overlapping patches are undone in another order than applied (debugger.cpp:414-418, debug_database.cpp:154-161) |
| `instructions`: `Liberties = {"longer"}` | `PatchesUndone` | the dialog enlarges a patch past its buffers (patch_info_dialog.cpp:80-81) |

### What else was met

Smaller facts about the code, met while it was modelled. Where a property would
stumble over one, the module excepts it by name or the instance avoids it.

*Debugger.* A pause at a point in force leaves a `ret`. A pause that hits a point
whose condition is false is lost, and such a point at the return address makes
step over go on. Without a current data base steps never stop. Step over tests
`opcode >> 26 == 0 && opcode >> 26 == 9` (debugger.cpp:963-964), so `jalr` is
never stepped over. The judge may evaluate the condition of another data base's
point at the same address. `checkBreak` of memory points tests `opcode == 0x1e`
on the whole opcode, so `lq` and `sq` are not aligned, and gives `swr` 8 bytes.
Deleting a patch does not pause the program. Setting the program counter after a
pause leaves the fiber where it was (not modelled).

*Listing.* Addresses from 0x20000000 get their top nibble twice in jumps, odd ones
from 0x80000000 are accepted. A coloured offset of 0x7fff wraps. `beql`, `bnel`,
`blezl` and `bgtzl` are coloured one short. The hint of `pref` is written with
"%02x" and read again as decimal. Shifts by registers are named `dsrav`, as are
`mult` to `divu`; `sdl` and `sdr` are "sbl" and "shr"; `xori` lacks a comma;
`tgei` to `tnei` look like branches; `cache`, `lqc2`, `sqc2` and the instructions of
coprocessors 0 and 2 and of multimedia cannot be assembled. Of the packed
instructions `paddsb`, `psubsb`, `pextlb` and `ppacb` are listed as those on halves, `psllvw`,
`psrlvw` and `pmsubw` as `pmaddw`, and `psllh` and its like show their count as a
register. Unknown words of coprocessors 0 and 1 show digits of the line before.
OK in the line editor takes the last text that was accepted, whatever is typed now.

*Instructions.* `ppacw`, `ppach`, `ppacb`, `pcpyld` and `pcpyud` are wrong when
rd is rs or rt (excepted in `AnyRegisters`). `bc0t` and `bc0tl` never branch.
`div` of INT_MIN by -1 faults in the host, where special.cpp:350 says what the EE
does. `bltzal` and its like test the link when rs is ra. `rsqrt_s` of a zero sets
no flag, and no underflow sets one. Operands of floats exclude the encodings the
EE does not have.

*Movies.* A picture and the next code must fit in the ring less one block. The last
reference of a film is never shown. The disc is assumed to keep up.

*Settings.* A game writes its settings at each end, changed or not; into a missing
directory it fails without a word. A newer file is replaced by defaults, with a
backup. The batch files and the debugger write `LastOpen`.

*Source lines.* Where a file goes on where a part of it ends, the order by line
has no sense (`PartsMeet`; code_window.cpp:638-643, elf.cpp:586-596). An address
before the first row shows the first row, the last row is never shown, and an
empty table makes `size() - 1` wrap around. The view moves up four lines at
each change. `set_column`, `fixed_advance_pc` and `define_file` are
not consumed, a unit without files is not skipped, and directory, time and size of
a file must fit a byte. `AutoJumpModule` uses `module_count()`.

*Input.* Cancel leaves the devices of the tool as changed until it ends. An
inactive window or a failing pad keeps what was pressed. A sense of 0 puts axes out
of reach. An unbound key reads `key_[-1]`.

*Analysis.* The slot before known code is neither marked nor followed (54-60).
Constants before a jump are followed one instruction late. `slti` and `sltiu`
write rd. `jalr` is ignored and an unknown `jr` falls through. Labels of cases compare
pointers (251-265). `lb` and `lh` keep high bits. Constants that point at constants
or jumps recurse without end (`Calm` avoids them).

*Notes.* `get_comment_idx` counts breakpoints of earlier data bases as
comments (debugger.cpp:1149; `Miscounted`). Labels of overlapping memory, cursor down in an
empty list (list_window_base.cpp:404) and a right click below the last row go
outside; `orderByPriority` reads `ddb_ary_[-1]`. Quotes in labels are not doubled
in files. A text set anew is not filtered again.

*Conditions.* `0x1` to `0xf` are read as the variables x1 to xf. Chains of one
priority are read from the right, and a prefix before one further down is lost. An
integer on the left truncates a float; small sizes wrap; signed wins over
unsigned. Divisions by zero and of INT_MIN by -1 fault. `*` of an undefined
name and an undefined index lose their error, `&&` of floats is one, and signs that match
nothing are skipped.

## 4. Fairness

* `CodeCache`: weak fairness of the steps of `recompile` and of the delay slot
  that `execute` has postponed; both are synchronous code once called. Nothing
  is assumed of the game.
* `EEKernel`: weak fairness of emulator code (`FiberStep`) and of a wait tried
  again; strong fairness of each thread's yielding calls: a game thread that is
  scheduled again and again comes to a call that hands the processor over, as a
  game does every frame. Without that one thread could keep a cooperative
  scheduler for ever. It is fairness for *some* yielding call of a thread, so
  it does not say that a wait succeeds.
* `AppLifecycle`: the operating system runs every thread; the game ends the
  frames it begins; and WinMain's poll, every millisecond, finds a pause
  between two frames at last (strong fairness of the screen steps).
* `FileLoader`: the operating system runs the loader and WinMain.
* `MovieStream` (`MovieEnds`): a game that plays a film loads, decodes, asks for
  the picture and reads its disc again and again. `LoadTurn` and `Decode` are
  loops of the emulator, never running at once, so weakly fair together;
  the calls of the game may be disabled in between by each other, so strongly
  fair.
* `Debugger` (`StopsAtLast`): weak fairness of `Progress`, the command and the
  program under it, which go on whenever the window gives the processor back
  (main.cpp 160-164). Nothing is assumed of the user. The program under it needs
  no fairness of its own: `Progress` is one instruction after the other.

## 5. Proofs

`tlapm` checks `CodeCacheProofs`, `EEKernelProofs`, `FileLoaderProofs`,
`AppLifecycleProofs`, `DebuggerProofs`, `MemoryCardsProofs`, `SoundDriverProofs`
and `DevicesProofs` completely; constants are arbitrary under the assumptions
named in the modules (`ConstantsAssumption` and `NullAssumption` in `CodeCache`,
`KernelAssumption` and `KernelNull` in `EEKernel`, `LoaderAssumption`,
`LifecycleAssumption`, `DebuggerAssumption`, `CardsAssumption`,
`SoundAssumption`, `MovieAssumption`, `FilmAssumption` in `Films`, `InputAssumption`, `RenderAssumption` and `NoReference` in
`RenderCache`, `LoopAssumption`, `PowersOfTwo` and `FillingAssumption` in
`EEMacroLoop`, `MemoryAssumption` and `ProgramsAssumption` in `EEMemory`), which TLC evaluates with every run. What a
theorem asks beyond them it states as a hypothesis: each is a use of the program
that section 3 shows to go wrong, or is said here to hold of the code.

*Code cache.* `TableFaithful` is not inductive. A growth or a join fixes only
the table entries in the index range of a block, so the range must cover the
entries (`RangeCoversEntries`); an append overwrites the last cell of a block,
which must be the closing `ret` and no instruction (`TailsReturn`); the block
in front of the recompile must end where it stands (`RecOK`); and a joined
block must begin with its own first instruction (`HeadsOwnCode`), which gives
the assertion of line 415. `IInv` is the conjunction. `EmitInv`, `CloseInv`
(the two ways to plant a `ret`), `GrowInv`, `JoinInv`, `BeginInv`, `ClearInv`
and `SyscallInv` prove one outcome each, from lemmas on moved addresses and
concatenated code. Theorems: `Invariance`, `TypeCorrect`, `TableStaysFaithful`,
`RangesCover`, `JoinAssertion`.

What the code does not keep in general is proved under the hypothesis that
excludes just what breaks it. `ReturnsFaithful` and `RefinesCache`, the refinement
of `TranslationCache`, take `Undisturbed`: no step of growth moves a block that a
thread is suspended in, and no patch empties the cache while one is. Of everything
a recompile does, only these two steps can leave a thread behind. `FillsEmptySlots`
takes `EntriesClear`, no address execution arrives at less than a request before
the end of the section; with both, `RecompilesFaithful`. The runs `cache_threads` and
`cache_growth` satisfy both hypotheses, `cache_stale_retaddr` shows what a step that
is not `Undisturbed` does. `FlowStaysFaithful` is about sections without a
macro pattern (`Plain`): the code of a block is that of its instructions in
their order (`CodeInOrder`) and ends in a `ret` (`ClosedByRet`), which a recompile
overwrites only to go on. `StaysWithinCapacity` adds `Roomy`: a growth step of
three instructions at least, no branch in the delay slot of another, and no
breakpoints. Its invariant `RoomLeft` counts what is left of the slack at each
point of the loop. `cache_growth`, which has two branches in a row and keeps within
its buffers, shows that the condition on branches is not always needed.

*The loop that fills memory.* `LoopInv` counts the rounds that are over (`Underway`,
`Over`): the counter has gone up by the step, the address by the stride, as often,
what is filled is that many words (`FilledBy`), and behind each of these rounds the
counter was below the limit (`WentOn`). From that follows that neither leaves the lower half
of a word (`CounterLow`, `AddressLow`), where the signed comparison of the host and
the unsigned one of the instructions agree (`Comparisons`). From every number the loop
ends (`Ending`, by division); both routes take the least number of rounds (`RoundsAre`,
`ByCodeIs`), so that the rounds before the macro is entered and those it goes itself are
together those of the instructions. `MacroFills` holds for words and immediates of any
width. `PowersOfTwo` says what the prover does not know of `^`. `FillingAssumption` is
what the property is about: the counter goes up from a number that is not negative to
a limit whose top bit is clear, and addresses stay in the half of memory that `r2`
starts in the middle of; 2^15 - 1 rounds of 2^15 bytes at most are less than 2^30, so
that no immediate of 16 bits breaks the last. The pattern the code looks for does not
ask for any of it. Section 3 shows what the macro leaves otherwise than the
instructions even so (`MacroIsTheCode`).

*Loads and stores.* `MemInv` says that what the machine holds is what the instructions
run so far made of what it began with, each at an address it may use. The proof is in the
lemmas about the moves: `ToRegIs`, `ToMemIs` and `FillIs` say which bytes each takes over,
`LeftEnd` where the left one of two accesses stops and the right one begins, at every
alignment, `WordLoaded`, `DoubleLoaded` and `UnalignedStored` that the two sides meet, in
either order, and `StoredBack`, `QuadBack` and `FloatBack` that a load of the size of a
store gives back what was there, extended. `MemoryGivesBack` holds for memory of any size
that is a multiple of 16, any contents, and any pairs of accesses of the two kinds the
module names (`ProgramsAssumption`: two ends of the same bytes, or a store and a load of
its size at one place, through whichever windows), where the run tries the first places of
a memory of one small size.

*EE kernel.* The strengthening says where the fibers that do not run are
suspended (`OthersSuspended`), that nothing exists beyond the arrays, that the
counts threads were told of are the counts there are (`LedgerExact`), and what
a judge about to answer knows (`JudgedDue`). The invariant splits into a
thread, a semaphore and an interrupt part that most actions touch one at a
time. Theorems: `Invariance`, `TypeCorrect`, `FiberIsOwn`, `CodeIsOwn`,
`RegistersAreOwn`, `CountsInRange`, `HandledOncePerTick` and
`SemaphoresImplemented`: the initial states map to initial states of
`CountingSemaphores`, every step to a step or a stutter.

*File loader.* What a load reports is not enough to be inductive: the thread that
reports must be the one of the last program (`OnlyTheLast`), which follows from
what `openElf` has waited for (`OpenOK`), and the request, the flag, the open file
and the buffer must agree at each of its steps (`ClaimOK`). `LoadsOneByOne` takes as
hypotheses that threads begin and reads end in time (`~SlowStart`, `~SlowReads`);
without them the property is false (section 3).

*OS threads.* WinMain's program counter says which threads exist (`Begun`), which
are gone or told to stop (`WaitedFor`), and what is freed (`FreedLate`); an execute
thread left suspended for ever counts as gone (`Gone`). `EndsInOrder` takes as
hypothesis that threads have begun (`~SlowStart`), `FramesStandStill` none: a reset
implies a suspended thread (`Held`).

*Settings.* A file that was there at first is the current one or the backup of its
version, and the current file is read as its user chose (`Kept`); a program that runs
has that in memory and knows whether there is something to back up (`Knows`); and
game and tool are in different directories (`Apart`). `SettingsAreKept` holds for any
values of the fields, with first files of this version, the one before or the one
after (`FirstFiles`), writes that end, no program opened over another, and no tool
on a game that runs; section 3 shows what happens without each hypothesis.

*Debugger.* `DebugInv` says what is planted at each place of a command: in the
window nothing but a pause; during the first instruction the step breakpoint
alone, where the instruction goes on; after it the points of one data base and,
inside a subroutine, the step breakpoint at its return (`StepInv`, `SubInv`,
`PointsInv`, `PauseInv`). Each `ret` stands for something planted (`Matching`), and
a byte with a point, a step and a pause over it is restored because each remembers
whether it found a `ret` (`StepInv`, `OneOwner`). The theorems `RestoresCode`,
`StopsAreInTime` and `StopsAtPoints` hold for every program that keeps to its code
(`KeepsToItsCode`) and a user who is `Careful`; section 3 shows what a careless
one meets.

*Memory cards.* A file, with the block its handle still has in the buffer of the C
library, is what the game has saved (`Faithful`), two open files have neither
descriptor nor file in common (`Own`), a file that is not open is on the disk as it
was saved, and what was told of a directory is the beginning of its listing
(`ListingInv`). Hence `CardsKeepFiles`, with a crash at any step: for the driver
`mc`, and for `mc2` on a console with one port (`OnePort`; it keeps one state for
both), if the game changes no directory while it lists it (`~Disturbed`).

*Sound driver.* The effects: the ring read backwards from its newest place is the
list of effects started, backwards (`EffectsInv`). The music: `MusicInv` says for
each thing the game was told last (stopped, filling, playing, over) what is in
the two pages, from the next unit to be sent to the last one before the silence
(`FillingInv`, `PlayingInv`), and what the words for the last page stand for.
`HeardThroughout` holds for songs and pages of any length, with the unit the code
cuts from a last page (`UnitTrimmed`: 0x800 samples are 0x1000 bytes) and
calls that do not come while the window is between the two steps of `activate`
(`~Racing`).

*Films.* A place of the decoder's ring that lies `Offset(i)` behind the load
pointer holds the byte loaded `BufSize - Offset(i)` bytes before the next one
(`RingInv`), the game's ring goes on in the film where the decoder's ends
(`SourceInv`), and the pointer of the decoder, which may lie a start code before
the ring, is the position in the film modulo the ring (`PointerInv`).
`BlocksStayAccounted` holds for rings of any size and any films. `NothingIsLost`
takes as hypothesis that the decoder has not read past what was loaded (`Behind`):
then a load writes over nothing that is still to be read.

That it does not read past it depends on the film, which the code never tests.
`Films` says what it takes for granted (`FilmAssumption`): a film has a layout, the
places at which its units begin and what it has come to there (the picture, its
macroblocks, the references, the picture on the screen); each unit leads to the next;
the order of the pictures is that of a video stream; and what is read from one header
of a picture to the next fits in the ring with a block to spare. `FilmInv` puts the
decoder on this layout: between two calls it stands at a header (`BetweenAt`), in a
picture at the place its macroblocks have come to, or, while it skips macroblocks,
inside the unit that ends there (`WithinAt`). What a start code, an escape or an
increment is for the decoder is then what it is in the film (`CodeRead`,
`EscapesRead`), because all of the call is loaded (`AllLoaded`, from `DiscKeepsUp`, the
game that loads before it decodes, and the rounding of `ReadableSize`). `Drawn` says
which macroblocks of the target and of the new reference are already those of their
picture, and `Numbered` where the references lie. `FilmsAreWhole` and
`FilmsPlayInOrder`, the refinement of `MoviePlayer`, follow for rings, blocks and
pictures of any size, all films of the grammar and any order of the calls, without a
hypothesis on the behaviour.

*Drawing.* The calls of an entry are alike and in their order, and the entries hold
all calls of the frame, one after the other (`EntriesInv`); what is drawn is
requested before it is decoded and decoded before it is painted (`ImagesInv`), and
what a cache holds is what its key names (`CachesInv`). `qsort` is given entries of
which any two differ in depth or in their first call (`Comparable`), so there is one
order (`SortedExists`, `SortedFacts`), and what the entries paint, put together in it
(`Flattened`), is each call once and the far ones first. A texture shows what its key names
(`Shows`): the identity in the key with the data it has now, and either the palette of
the key or the image's own. This is kept while the data of other identities change,
because data change only under an identity no cache holds; and it makes the key tell
images apart that share a dynamic palette. `FramesAreAsDrawn` holds for frames of any
length and any order of loading, drawing and forgetting. It takes as hypotheses that no
other data come to an identity the caches hold (`~Reused`), and that an image is drawn
with one offset for its own palette and one for a dynamic one (`OneOffset`); section 3
shows what happens without each. The facts about lists that need induction, that `FlattenSeq`
joins its parts and that a finite set can be sorted, are proved by a least
counterexample (`LeastNumber`).

*Input.* The tool and the game each number the devices they find, and the settings
keep a number. What holds them together is an order `M` of all that may be attached
(`Enumerated`): the list of the settings, the devices the tool found and those the
game found are each a beginning of it (`ListInv`, `AttachedInv`), so that a number
stands for the same device in all three (`ChosenInv`, `GameInv`), and what is written
for a button is what was meant (`GivenIsMeant`). `InputIsAsPressed` holds for any keys,
positions, senses and buttons and any number of programs. Its hypothesis is that a
device keeps its place among those attached: the pads of the run `devices` do, and
section 3 shows what a pad does that takes the place of another. With
`SettingsAreKept` it gives `ChoicesAreServed`, for every behaviour of `MCDevices`.

*Only model-checked.* `IntegersAgree`: `EEInteger` says what a reference instruction does
with the bitwise operators, which the prover cannot use. `FloatsAgree`: shifts by and
quotients of powers of two that are data, which is arithmetic without a decision procedure.
`ListingAgrees`: one case for each of the two hundred rows of the tables, which TLC takes
one by one. `PatchesUndone`, `NotesKept`, `SourcesAgree`, `CodeIsMarked` and
`ConditionsAgree`: these modules fold or recurse over the patches of a file, the notes of
a data base, the sections of a program, its code and the terms of a condition, so that
what they compute for every input is induction over data, which is out of reach of the
prover (`CodeAnalysis`, `Conditions` and `MCInstructions` also declare RECURSIVE
operators). All liveness properties, which need ENABLED.

## 6. Plan

Done: the code cache and the EE kernel with their abstract specifications and
proofs; OS threads; the file loader; the devices, with the refinement of
`MoviePlayer`; instructions; the debugger and its data.

Left, in the order of what it would add:

1. `Debugger` over `CodeCache` instead of over instructions: planted bytes in
   blocks that move, with patches that clear the cache.
2. RPC end callbacks and system calls with thread switches in one module, from
   `CodeCache`'s frames and `EEKernel`'s fibers.
3. The jump log and the call stack of the debugger (debugger.cpp 635-855).
4. The windows that are lists and dialogs over data already modelled.

## 7. Not modelled

* Numeric kernels: the decoding of blocks and their inverse transform in
  `mpeg2dec.cpp`, ADPCM in `audio.cpp`, the image decoders in `graphic.cpp`.
  They compute numbers from numbers, with nothing of the kind TLC is good at:
  their inputs are many and each step is arithmetic.
* The encodings in `x86macro.*`: `EEInteger` and `EEFloat` say what each emitted
  instruction does, not how it is written. Of the EE: `pand`, `pxor`, `por`,
  `pext5`, `ppac5`, the SA register and the system instructions of coprocessor 0.
* The jump log of the debugger, which folds repetitions and does not always
  unfold to the same log (debugger.cpp 635-692, 831-855: A B A B B), and its call
  stack (694-726); opening, saving and profile windows, colours, trees and other
  layout; the remaining pages of the configuration tool, whose source is mostly
  generated.
* Network and lobby: nothing creates a `NetworkMgr`, `readNode` loops without end
  and the functions for messages are stubs, so no state of it is one the program is in.
* Utilities, `dsLib`, the network simulator and the unit tests: helpers and
  separate tools.
* Failures of `malloc`, `realloc` and `CreateThread`, and locks inside system
  libraries that a suspended thread may hold: the code does not test or know them, so
  each would be a fault and nothing more.
* The text of an RPC call and the dispatch of its number: a call is an action of
  the service it reaches.
