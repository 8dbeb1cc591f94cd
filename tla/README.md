# Models of chapOS

chapOS is a small 32-bit x86 kernel (`src/chapOS/student-distrib`): one processor, a shell on
each of three terminals, programs that run on top of one another, a read-only file system, a
keyboard and a real time clock. This directory holds TLA+ models of it, the TLC runs that check
them, and proofs about them checked with TLAPS. File names without a path below are in
`src/chapOS/student-distrib`, those of programs in `src/chapOS/syscalls`.

## The system

Processes are not scheduled: the timer runs (`kernel.c` calls `pit_init`), but its handler only
acknowledges the interrupt, the switch of processes in it being commented out. Concurrency comes
from interrupts. The system call stubs enable interrupts before the body of the call and disable
them after it, so a program's system call is interrupted by the clock's handler, by keys, and by
two keys that do much more than set a flag: Alt+Fn executes a new shell *inside the keyboard
handler*, on the kernel stack of whatever was interrupted, and Ctrl+C calls `halt` *inside the
keyboard handler*, on whatever was interrupted. The handlers themselves run with interrupts
disabled until they enable them on purpose.

| Component | State | Operations | Talks to |
|---|---|---|---|
| processes (`system_call.c`) | `proc_id_flags`, `active_proc_num`, a control block and a kernel stack per process, `tss.esp0` | `execute`, `halt`, `getargs`, `gen_new_proc_id`, `get_pcb_ptr` | paging, file system, descriptors, terminals |
| system call linkage (`sys_call_asm_link.S`) | the kernel stack | `main_syscall`, stubs, `_execute_iret`, `RET_FROM_IRET` | processes |
| exceptions (`idt.c`, `handlers.S`) | the descriptor table, constant after boot | one handler per exception: print, `halt(1)` | processes |
| keyboard lines (`keyboard.c`) | a line buffer per terminal, `buffer_index`, `return_flag`, the modifiers' flags | the interrupt handler, `keyboard_read`, `keyboard_write` | screen, terminals, processes |
| terminals (`keyboard.c`, `terminal.h`) | `cur_term_id`; per terminal in-use flag, cursor, index, saved screen | `terminal_launch`, `_change`, `_save`, `_restore` | keyboard lines, processes, paging |
| screen (`lib.c`) | `screen_x`, `screen_y`, video memory | `putc`, `clear`, `move_screen_up`, cursor | terminals |
| real time clock (`rtc.c`) | `rtc_interrupt_occurred`; in the device the index port, register A, the interrupt line | `rtc_read`, `rtc_write`, `rtc_open`, `rtc_close`, `rtc_irq_handler` | interrupt controller, descriptors |
| interrupt controller (`i8259.c`) | `master_mask`, `slave_mask`, the two registers they shadow, the lines in service | `i8259_init`, `enable_irq`, `disable_irq`, `send_eoi` | timer, clock, keyboard |
| timer and scheduler (`scheduler.c`) | none | `pit_init`, a handler that acknowledges | interrupt controller |
| descriptors (`system_call.c`) | eight per process: flag, operations table, inode, position | `open`, `read`, `write`, `close`; `halt` closes all | file system, clock, keyboard |
| file system (`file_sys_module.c`) | an image in memory, constant | lookup by name and index, `read_data`, `file_read`, `dir_read` | descriptors, `execute` |
| paging (`paging.c`) | page directory: the image page of the running process, the page of a saved screen | `initialize_paging`, `mapUserImgPage`, `mapTermVID`, `new_userVID_page` | processes, terminals |
| boot (`kernel.c`, `boot.S`) | none of its own | `entry`: descriptor table, controller, devices, `sti`, paging, first shell | all of them |
| library (`lib.c`, `lib.h`) | none but the screen's | `memset`, `memcpy`, `memmove`, string functions, `itoa`, `printf` | all of them |
| user programs (`src/chapOS/syscalls`) | their own memory | loops over system calls | descriptors, processes |

What is hard, and what makes each component correct:

* **processes**: four places say which process runs and are updated one by one; the parent is
  *taken from the slot below*; `halt` jumps to an `esp` saved long ago. Correct if the table
  always describes one strict stack of processes, a child returns to its caller, nothing reaches
  a suspended process, and the kernel always gets back to a program.
* **keyboard lines**: one index and one flag for all terminals and readers, keys between any two
  loads of `keyboard_read`, buffers at their limit. Correct if a read waits for an Enter of its own
  and gets the line that was entered, an unfinished line survives any other use of the keyboard,
  and Enter ends a read. Modifiers: correct if none stays in effect without a key held, and every
  key gives the character that is expected.
* **clock**: ports and a shadow mask shared with the handler, early returns with the line masked,
  kills in between. Correct if a read waits for a new tick, a written rate is set, and the line
  does not stay masked.
* **interrupts**: handlers that are left for good (by Ctrl+C) or for a whole program's life (by
  Alt+Fn) must have acknowledged their line and unmasked it. Correct if every program that runs can
  be interrupted by all three devices, and each interrupt reaches its handler.
* **screen and terminals**: `putc` of a program against `putc` of a key; screens saved while a
  suspended program still has text to print. Correct if the cursor stays on the screen and what
  is drawn goes to one place.
* **descriptors and file system**: limits of the table and of a file, tables left in a closed
  descriptor. Correct if a descriptor is given out once and reads return exactly the file.
* **library and commands**: word-wise copies with unaligned ends, an overlap, padding and signs,
  words that meet the ends of their arrays. Correct if they do what their callers rely on.
* **programs**: loops over reads that must end, statuses that must not be confused. Correct if
  what ends well has done its work, whatever ran in the same slot before.

Every hazard is listed at its line in `PROJECT.json`, with the properties that would catch it.

## Modules

| Module | Content |
|---|---|
| `ProcessStack` | abstract specification: a stack of processes; a process that asked for a child is answered exactly once, with the child's status or -1; one a key merely interrupted is told nothing; the bottom shell is replaced when it leaves |
| `Processes` | the kernel's implementation: table, control blocks, kernel stacks, `esp`, `tss.esp0`, page directory; actions for the entries, `execute`, `halt` and the returns |
| `Rtc` | the clock, its line's mask and the descriptors it is opened through, with the handler, launches and kills between any two accesses |
| `Keyboard` | line buffers, terminals' indexes and `keyboard_read` |
| `Scancodes` | the modifiers' flags and the choice of a character: the first part of the keyboard's handler |
| `Interrupts` | extends `Scancodes`: boot, descriptor table, controllers, and the handlers of timer, clock and keyboard with the launches and kills inside the last |
| `Files` | the descriptor table of every process and reading of files and directories |
| `Programs` | extends `Files`: the shell, `cat`, `ls`, `grep` and `syserr` as its clients |
| `Screen` | the cursor: `putc` of programs and of the keyboard handler, Backspace, the terminals' coordinates |
| `Library` | memory, string and output functions as operators |
| `Commands` | extends `Library`: `execute`'s parsing of a command, the directory lookup, the test for an executable |
| `LibraryCalls` | one call of any function of the two, and what it must return |
| `ProcessesProofs`, `RtcProofs`, `KeyboardProofs`, `FilesProofs`, `ProgramsProofs`, `InterruptsProofs`, `ScreenProofs`, `LibraryProofs` | proofs |
| `MC...` | the sets the runs use |

`Processes`, `Rtc`, `Keyboard`, `Interrupts`, `Files` and `Screen` each contain the same stack of
nested programs, reduced to what the component sees of it: `Processes` shows that it really is a
stack, the others rely on that. `Interrupts` composes the boot, the controllers, the three handlers
and the modifiers; `Programs` composes programs, processes, descriptors and files.

### Processes

A kernel stack is a sequence of frames, one per activity that has begun on it and not ended: `execute`
and `halt` (entered by a system call, not yet run), `other` (any other system call, which may wait),
`exception`, `launch` (the keyboard handler about to execute a shell), `wait_syscall` and
`wait_launch` (an `execute` whose child runs), `answer` and `launched` (an `execute` that has
returned). An entry pushes a frame on the stack `tss.esp0` or `esp` points to; a frame records whether
interrupts are enabled while it runs, and Alt+Fn and Ctrl+C happen wherever they are. An exception
comes through a trap gate and leaves them as they were: a command that cannot be read faults inside
`execute`, with interrupts disabled. `execute` and `halt` run with interrupts disabled and are one
action each, with all their assignments: `Execute(prog)`, `ExecuteNotFound`, `ExecuteTooMany`, `Halt`,
and `CtrlC` for the halt inside the keyboard handler. `ksp` in a control block is a stack and a depth,
and `HaltToParent` cuts that stack back to the depth, as loading `esp` does.

### Rtc

A step is a stretch of code between two accesses to a shared variable or a port:
`slave_mask` stored, mask output, register A selected, read, selected, written, and so on. The
handler runs with interrupts disabled and is one step. `slave_mask` and `pic_mask` are the
clock's bit of the variable and of the controller's register; they differ inside `disable_irq` and
`enable_irq`, and for longer when the handler or a killed program comes in between. `index` is the
register the index port selects. Each program has a set of `active` descriptors and the set
`tables` of those whose operations table is the clock's: `open` sets the flag before and the table
after `rtc_open`, `close` clears the flag before `rtc_close` and leaves the table, and `halt`
(`Leave`) closes exactly the descriptors in both.

### Keyboard

Each key is one step of the handler. `keyboard_read` takes a step per load: the character is
loaded once to be copied and once to be compared with the null key, always from the buffer of the
terminal shown *now*. Enter at the end of a full buffer stores its null key one past it; the
outcome is the choice between the next terminal's first character and something outside the model.
A reader below a launched shell sees the flag and the buffer of the shell's terminal, so a line can
be read twice; no property says otherwise, because nothing in the repository does.

### Scancodes and Interrupts

`Scancodes` holds `ctrl_flag`, `alt_flag`, `keyboard_mode` (Shift and Caps Lock) and, as history, which
keys are held. A key that is held may repeat. Of a code with the prefix E0 the handler drops that
byte only (`keyboard.c:568`); the next is an ordinary code to it. The right Ctrl and Alt and Pause are
therefore among `CtrlKeys` and `AltKeys`, and `ExtendedKeys` are those whose codes contain a Shift's:
PrtSc, the arrows and their neighbours press a Shift (E0 2A) with their own code and release it (E0 AA)
afterwards, or, while a Shift is held, lift it first and press it again at the end (`lifting`). That a
keyboard takes back the Shift it pressed when the key goes up is assumed of the device. What such a
Shift does to the characters in between is in the model; `CharactersFollowKeys` speaks of the mode
again when the key is up.

`frames` in `Interrupts` is the chain of suspended activities, each named by what it does next: the
boot's stages, `user` for a program in user mode or in a system call, `pit` for the timer's handler
after it has enabled interrupts, and the places of the keyboard's handler from which it goes on with
interrupts enabled. Code that runs with interrupts disabled is one step. A line can interrupt if the
processor's flag, the mask and the lines in service allow it, with the controllers' priorities. The
mask is kept twice, as the variables have it (`irq_mask`) and as the controllers do (`imr`), because
`i8259_init` leaves them different until the first `enable_irq` of each half. `AfterHalt` cuts the
chain where `halt` does: every activity on the dead program's kernel stack is gone, whatever it had
masked or not acknowledged. The clock's own line, which a program can leave masked in other ways,
is followed access by access in `Rtc`; here `ClockCall` masks or unmasks it.

In `Spec` no Ctrl+C and no Alt+Fn is pressed between `entry`'s `sti` and `initialize_paging`;
`BootSpec` allows them, and `boot_keys` shows what they do. Ctrl+C and Alt+Fn between
`initialize_paging` and the first shell (`kernel.c:184` to `init_terminals`) are left out of both: there
is no process yet for `halt` to end or for a launch to interrupt, and nothing in the repository says
what either should do then.

### Screen

Each access of a program's `putc` to `screen_x` or `screen_y` is a step: the build is not optimised,
so every increment is a load and a store, and every condition loads again. `at` in `calls` is the
access that comes next. The handler's `putc` is one step (`PutChar`, `PutNewline`). The entry of
`terminals` for the terminal that is shown is never read before it is written and is kept at its
initial value. `line_start` and `drawn` are history: the cell in which the line being typed on a
terminal began, and the cells that hold characters of it, written by the handler's `putc`, moved by
`move_screen_up` and erased by `press_bskp`; they are kept until a program prints there. The other
cells are left out. A line that begins where an interrupted `putc` has taken the cursor off the row
is not followed: `putc` then counts one row for several.

### Files

`f_descs` is the part of the control blocks that `open` and its companions use. A control block is
memory: `Execute` sets descriptors 0 and 1 and leaves the others as the slot's last process left
them, which at first is cleared memory (`Rtc` assumes the same). `open` is two steps, `OpenTakes`
up to the flag and the position, `OpenEnters` for the table and the inode, because `rtc_open`
lies between them and a key can kill the process there or launch another. The table of a descriptor
that was never opened in its slot is "unset". `close` and the reads
are one step: they touch the descriptor at one point and no other process touches it. The image is
a constant and well formed (`ImageAssumption`); a byte is named by its block and its place there,
so that a byte taken from a wrong place is told from the right one. `ReadData` moves a cursor from
block to block as `read_data` does; the property that speaks of it finds a byte by division.
`opened` and `got` are history. The clock's own functions are in `Rtc`.

### Programs

`task` says for each process which program it runs, who started it (`boot`, a shell's `execute`, or a
key), and where in that program it is, with the variables that matter there; `arg_buff` is the
argument in the control block. Every step of a program is one system call of `Files` with what the
program does about its result; `open` keeps its two steps. Between any two steps a key can launch a
shell on top (`KeyLaunches`) or end the program (`KeyKills`), and in the program's own code an
exception can (`Faults`). A program killed inside the first `open` of its slot has a flag set and no
table: `halt` calls `close` through a null pointer (`system_call.c:75`, `556`), faults, and the
handler of that exception halts the process again, with status 1; `HaltStatus` is what its parent
gets. A shell takes any of the `Commands`, or is left; `syserr` waits for the number of a test, a line
as well. The tests of `syserr` are its tables of calls (`Tests`), run all or one at a time as the user
chooses (`TestChoices`, with one for a number the menu does not have); `test` and `step` say which
call comes next, and `Judged` counts failures as the tests do. What the tests take for out of range
must be so (`OutOfRangeAssumption`), the directory has an entry for itself and none under a name that
`syserr` expects to be missing (`NamesAssumption`), and a buffer holds at least a byte
(`CommandsAssumption`). What a refused call does is `Refuses`: the tests of the descriptor, of the
address in `vidmap`, and of the number in `main_syscall`. `ended` is history: how the last program of
a shell ended, for the comparison with what the shell prints. `DotNames` are the names that begin with
a dot, all of which `grep` passes over. The directory of the run has no executables and no clock in
it, so `grep` reads only what can be printed here.

### Library and Commands

Memory is a function from addresses to bytes. `memset`, `memcpy` and `memmove` copy unit by unit as
the string instructions do, with the unaligned bytes before and after. Loops are recursive functions
of the number of rounds. Numbers have `WIDTH` bits, a multiple of four, so that a number has
`HexDigits` hexadecimal digits (8 in the kernel); `Modulus` is 2^`WIDTH`, taken four bits at a time.
`printf` goes over its format character by character: a `%` begins a conversion and the next
character, or the next two with `#`, ends it. `%d` prints a number of half of `Modulus` and above as
a minus and the negated number, which wraps. `Parse` goes over the command in the states of
`execute`'s loop, and keeps which bytes of `name` and `argument` are written, so that one past an
array would be seen. Strings stand in memory with something else behind their null. `LibraryCalls`
chooses a call, then returns: `Return` has one disjunct per function, and the properties compare what
it gives with definitions made from sets and sums that do not follow the code. A command's words
may be longer than `execute`'s arrays, which it never tests: what the stack behind an array does to the
call is not followed, the outcome is then that it was touched (`Overrun`). Other inputs are those
the kernel's own callers give and their neighbours: blocks inside
memory (`BoundsAssumption`), formats that do not end within a conversion. A file of fewer than four
bytes leaves part of the buffer for the magic number as it was, and is taken as either outcome; one
that is executable has the four (`DirectoryAssumption`). `getargs` with a buffer exactly as long as
the argument writes the null one past it, which the property allows. `memmove` leaves the direction
flag set when it copies backwards; nothing that runs calls it.

## Runs

| Run | Question | Bounds | Result |
|---|---|---|---|
| `processes` | Do the tables describe one stack, does it implement `ProcessStack`, does the kernel get back to programs? | 3 process slots, 3 terminals, 2 programs, statuses 0, 1, 2, 257 | holds, 121 882 states |
| `rtc` | Do reads wait for a new tick, what can cut the clock off or stop it, do readers get their tick? | 2 nested programs, 1 descriptor each, requests 1, 2, 3, 1024, 2048 | holds, 425 816 states |
| `rtc_race` | Does `rtc_write` set the rate it was given? | 1 program, requests 2 and 1024 | violated: the handler intervenes |
| `keyboard` | Do unfinished lines survive, does a read wait and get its line, does Enter end a read? | 2 terminals, buffers of 2 characters, 2 programs, 1 character, reads of 1 and 3 | holds, 393 263 states |
| `interrupts` | From power-on, can every running program be interrupted by every line, do interrupts reach their handlers, does a modifier stick? | 3 terminals, 2 processes, chains of 6 activities, 2 Shift keys and one extended key | holds, 3 859 782 states |
| `boot_keys` | Is the kernel's page there whenever paging is on? | same, keys from `sti` on | violated: Ctrl+C or Alt+Fn before `initialize_paging` |
| `files` | Are descriptors given out and back rightly, and files and directories read whole and in order? | 2 process slots, 2 descriptors besides the terminal's, blocks of 2 bytes, a file of 3, `nbytes` 1 and -1 | holds, 1 511 219 states |
| `files_end` | Does a read stop at the end of the file? | 1 process | violated: one byte more is copied |
| `programs` | Do the programs do their work whatever interrupts them and ran before, does the shell know why one ended, do they end? | 3 processes, 8 descriptors, the directory, a file of 2 blocks of 1 byte under a plain name and one that begins with a dot, reads of 1 and 2 | holds, 1 272 478 states |
| `screen` | Do buffer, cursor and screen agree on the line being typed? | 3 rows of 2 columns, 2 terminals, 2 programs, lines of 3, at most one row and two columns off the screen | holds, 6 780 778 states |
| `screen_rows` | Does a cursor stay on the screen when keys interrupt `putc`? | 1 program | violated: one row below |
| `library` | Do the functions do what their callers rely on? | 12 bytes of memory, long words of 4, numbers of 8 bits, strings of 3 letters, 2 conversions, commands of 8 characters, arrays of 3 and 4 | holds, 34 607 states |

Why the bounds are enough to meet the interesting cases. *Processes*: three slots give a process
that is neither the first nor the last, a table that is full while terminals are left to launch, and
a launch on top of an execute on top of a launch. *Rtc*: two programs are a call interrupted by
another call; the ends of the accepted range, a number that is not a power of two, one that is too
large, and the power of two without a case cover the outcomes of the checks; one descriptor suffices
for every combination of flag and table, and a descriptor that another file used in between is in
the same state as one never used. *Keyboard*: a buffer of two is empty, part full and full; old
contents of a buffer differ from new ones by their length; two programs give a reader below another
reader. *Interrupts*: three terminals with two processes give a launch that succeeds and one that
finds the table full; a chain of six (`MAX_FRAMES`) holds a handler with a program on top, itself in
a handler with the timer on top of that; the timer's handler could nest further only on itself and
on what the six already hold. *Files*: two descriptors give one in use beside one reused, and a full
table; a file of a block and a half, its blocks out of order on the image, is read across their
border and past its end, and its last possible byte is the last of a block; the directory, the clock
and the file are the three types; -1 is the largest `nbytes`, as `read_data` takes it as unsigned
(`WORD` is 65536 in the run: only that it exceeds every file counts). *Programs*: eight descriptors
are what `syserr` counts on; with three processes a program runs under a launched shell and above
one, in a slot another has used; the file is read in two pieces and one that finds its end. *Screen*:
the cursor meets the end of a row, of the last row, and the top corner; a line of three crosses the end
of a row and the move of the screen, and goes back over each. `MaxRow` and `MaxColumn` stop a putc
whose store would take the cursor further off: without them it can go any distance, one interrupted
`putc` at a time. `MaxColumn` lets it past the end of the row after. *Library*: twelve bytes hold an unaligned beginning, a whole word and an
unaligned end at every alignment, and every overlap; eight bits have a sign, and values 0, 7, 10, 16,
127, 128 and 255 meet every width of a number; eight characters of a command hold two words with
spaces before, between and behind, and either word past the end of its array.
The proofs do not depend on the bounds.

### Properties

* `TableIsStack`, `OneCurrentProcess`, `ParentIsCaller`, `FramesInOrder` (invariants of
  `Processes`): active slots are exactly 0 up to the running one; `active_proc_num`, `esp`,
  `tss.esp0` and the page directory agree whenever the kernel can be entered; every process's
  parent is the one whose stack its saved `esp` ends, and an `execute` waits there; frames lie in
  the order the returns rely on.
* `SuspendedUntouched` (action property): no step changes stack, control block or memory of a
  process that stays suspended.
* `ImplementsProcessStack` (refinement): the mapping takes the processes up to `active_proc_num`;
  one asked when its stack ends in `wait_syscall` and has its answer when its stack begins with
  `answer`. Entries and returns of handlers stutter.
* `BackToPrograms` (liveness): the kernel gets back to a program or to a system call that waits
  for input.
* `ReadsWait`: when `rtc_read` returns, an interrupt has come since it began, although the flag is
  shared with everything that ran in between.
* `DeafOnlyByFailure`: the clock's line is left masked, with no call left that will unmask it,
  only by a refused `rtc_write`, by the end of a program inside `open` or `close`, or by an
  `enable_irq` that finds in `slave_mask` what such a program left. Each of the three does occur.
  A program killed inside a write is harmless, because `halt` closes its descriptor.
* `QuietClockKeepsTicking`: the clock stops ticking, or loses the divider bits of register A, only by
  `rtc_write`'s write of that register, and only for a request of 1 Hz, the power of two the switch
  has no case for, or if the handler came into that call. Programs on top
  of the call that write the register between its read and its write do no harm, nor do kills and
  refusals.
* `ReadersProgress`: with line, divider and rate right, a reader does not spin for ever.
* `UnfinishedLinesKept`: what is being typed on a terminal survives everything done on the others,
  except an Enter at the end of a full buffer there.
* `ReadsWaitForEnter`: a read ends its wait only after an Enter pressed since it began.
* `QuietReadGetsLine`: a read no key disturbs after Enter gets the line, or as much as it asked
  for, and returns its length unless it fills the buffer.
* `EnterNotLost`: an Enter given to a program that waits is there when it looks, whatever other keys
  come first, unless a program was started on top in between: a shell's own read resets the flag, and
  the program below waits on.
* `EnterEndsRead`: a program that was given an Enter and has not lost it so ends its read, whatever
  keys come during the copy, as long as it stays on top. The property follows that one reader; another
  program on top of it is neither an answer nor, once gone, an excuse.
* `LinesHeard`: whenever a program runs, interrupts are enabled, none is in service, and timer,
  keyboard and slave are unmasked. It would fail for a handler that launches or halts before its
  acknowledgement or with its line masked.
* `InterruptsReachHandlers`: every line let through, from the first `sti` on, has its handler at the
  vector the controllers send.
* `MaskedByHandler`: controllers and variables agree, and the keyboard's line is masked only under
  its own handler.
* `NoModifierStuck`, `CharactersFollowKeys`: Shift, Ctrl and Alt are in effect only while a key is
  held, and every key gives the character Shift and Caps Lock call for, unless codes of Shift keys
  overlapped (`muddled`): the two Shift keys are one to the handler, and a repeated Shift code
  forgets Caps Lock. A key that presses a Shift of its own counts as Shift while it is down, and the
  second says nothing of the time an extended key holds or lifts one: it gives back what it found.
* `LineFollowsCursor`: on every terminal, until a program prints there, the cursor stands as many
  cells past the beginning of the line being typed as the buffer holds characters, and those cells
  hold what was typed, across rows, moves of the screen and switches of terminals. Backspace can
  leave one character on the screen: the last of the first row (below, "Disagreements").
* `InUseIsOpened`: the descriptors in use are those a process has opened and not closed; none leaks
  from a killed process to the next one in its slot.
* `LeadsToItsFile`: table and inode of a descriptor are those of the file it was opened for.
* `FileReadInOrder`: however reads are cut, a program gets each byte of the file once and in order,
  and at most one more thing (the byte `files_end` is about).
* `DirReadListsAll`: between two ends of a directory every name is returned once, in order.
* `TestsPass`: no test of `syserr` fails, in any slot, after any history, under any interruption.
* `PrintedInFull`: `cat`, `ls` and `grep` that end well have printed the file, every name, or looked
  into every file whose name does not begin with a dot.
* `ShellTellsCause`: the shell's message is the one for the way its command ended, one of four; a
  command a key ends inside its first `open` ends by an exception, that of `halt`.
* `ProgramsEnd`: no program stays on top for ever, unless it waits for a line: a shell does, and
  `syserr` before its tests.
* `MemoryRoutines`, `StringRoutines`, `PrintfPrints`, `CommandsObeyed`: the functions move exactly
  the bytes they should (`memcpy` unless its destination begins inside its source) and write numerals
  of the right value; what `printf` writes can be cut into one part per piece of the format, each
  what the piece stands for, and no argument is left; a command starts the first entry of its first
  word's name with its second word as argument, whatever its length; the stack behind `execute`'s
  arrays is touched by every command whose first word does not fit with its null or whose second is
  longer than its array, and by none whose two words fit.

### Fairness

`KernelRuns`, `FairSpec` of `Rtc` and of `Keyboard` assume weak fairness of kernel code that has
something to execute: one processor executes its next instruction, and with interrupts disabled
nothing keeps it from doing so. In `Rtc` the clock also ticks and its unmasked interrupt is taken.
`ProgramsSpec` assumes the same of a program: the one on top takes its next step at last, unless that
is a read of a line, the shell's or the one before `syserr`'s tests (`LineTyped`). No key is assumed to
be pressed, and a system call that waits for input is not assumed to end.

### What the violated runs show

They check sentences of the repository that the code does not keep; `PROJECT.json` quotes each.
`rtc_race` in short: the handler runs between the two halves of `disable_irq`, after the store of
`slave_mask` and before the output. Its own `enable_irq` clears the bit, the output loads the
variable again and so leaves the line unmasked, and the handler comes once more between the
selection of register A and the write; the rate goes to register C. `boot_keys`: `entry` enables
interrupts before `initialize_paging`; Ctrl+C or Alt+Fn there changes an entry of a page directory
that has no kernel page yet and turns paging on.

### Disagreements

These the models show as well, without a run of their own; a property of a passing run has the
exception, and its comment names it.

* `rtc.c:173` and `rtc.c:179` ("Read current value of register A", "Clear low 4 bits of prev A reg value
  and AND with new rate value") promise that `rtc_write` keeps the divider bits of register A. If the
  handler, which selects register C, comes between `rtc.c:174` and `175`, the value read is register
  C's, and `rtc.c:180` writes its upper bits over the divider: the clock is stopped or changed by a
  request for any rate. `QuietClockKeepsTicking` excepts exactly the writes the handler came into.
* `keyboard.c:733` and `735` say that `keyboard_read` returns the number of keys copied. For a line that
  fills the buffer, read whole, it returns the 0 of `keyboard.c:752`. `QuietReadGetsLine` says the keys
  are right, and claims nothing of the value returned then.
* `keyboard.c:734` says that `keyboard_read` copies a line ended by Enter. An Enter pressed for a program
  that waits is lost if a shell is launched on top of it before it runs: the shell's own
  `keyboard_read` resets `return_flag` (`keyboard.c:740`), and the program below waits for another.
  `EnterNotLost` excepts exactly the programs another was started on, and `EnterEndsRead` follows the
  reader itself, so that a shell on top of it is not taken for its answer.
* `keyboard.c:509` and `528` say that `press_bskp` modifies the buffer and the screen and moves back a
  space on it. The test before it (`keyboard.c:526`, `y>1||x>0`) leaves the character on the screen
  when it goes back from the beginning of the second row to the end of the first. `LineFollowsCursor` allows that
  one cell to be left, and no other.
* Shift codes after E0 (`keyboard.c:568` drops that byte only) change the keyboard's mode without a
  Shift key: `NoModifierStuck` counts the keys that send them as Shift. Nothing in the repository says
  what these keys should do.
* `system_call.c:200` and `218` copy a command's words into arrays of 10 and 100 bytes without a test
  of their lengths. Nothing in the repository says what a longer word should do; `CommandsObeyed`
  says which commands do it.

## Proofs

All proofs are for every value of the constants under the modules' named assumptions: sizes are
positive (`SizesAssumption` of each module, `DepthAssumption`, `BoundsAssumption`), sets of requests
are integers, `Garbage` is a non-empty set of four-bit values, `Slots` are descriptors 2 to 7, the
image is well formed (`ImageAssumption`, `DirectoryAssumption`), the modifier keys are distinct, and
those on `WIDTH` and on the programs' names and numbers described above. TLC evaluates each in the
runs. In each module one inductive invariant is shown to hold initially, to be kept by every step,
and to imply the properties. Every invariant and every action property of the passing runs, and the
refinement, is stated by a theorem.

* `ProcessesProofs`: `TypeCorrect`, `TableCorrect`, `CurrentCorrect`, `ParentCorrect`,
  `FramesCorrect`, `SuspendedCorrect`. None of the invariants is inductive alone: that a new
  process's slot is the next one needs the table to be a stack; that the slot below is the caller
  needs the kernel to be on the running process's stack; that the saved `esp` is still the end of
  the caller's stack needs that no frame is pushed there, hence the same; that an `execute` waits
  there needs the order of frames. `IInv` is their conjunction. The main lemmas are one per kind
  of step: an entry, a change of the top frame, a return, a start, a halt to the parent, a restart.
  The second half proves `Refinement`, that `Processes` implements `ProcessStack`. The same `IInv`
  suffices. One lemma per effect on the sequence of views (`SameViews`, `TopView`, `PushView`,
  `PopView`) turns what a step does to one or two kernel stacks into an abstract sequence; one lemma
  per kind of step then names the abstract action: entries and handlers' returns stutter
  (`EnterStutters`), a failed `execute` refuses a program and leaves a handler's caller as it was, a
  return takes the answer, `execute` asks or opens a terminal, `halt` resumes or restarts.
* `RtcProofs`: `TypeCorrect`, `ReadsWaitCorrect`, `DeafOnlyByFailureCorrect`,
  `QuietClockKeepsTickingCorrect`. `IInv` adds to the types: a set flag was set after every read in
  progress began (`FlagIsFresh`), calls below the running one are covered (`BelowCovered`), an
  uncovered call about to output in `enable_irq` has stored a clear bit (`CleanEnable`), and a write
  holds an open descriptor (`CallsFit`). `DividerKept`, beside it, says of every write that is about
  to write back wrong divider bits without an interrupt that the register has none better, and that
  no call above it has better ones.
* `KeyboardProofs`: `TypeCorrect`, `ReadsWaitForEnterCorrect`, `UnfinishedLinesKeptCorrect`,
  `QuietReadGetsLineCorrect`, `EnterNotLostCorrect`. `IInv` says that the line Enter ended, while nothing has touched it,
  is the beginning of the shown buffer with its null key behind it (`LineInBuffer`), and of each
  call that what it has copied is the beginning of that buffer while it is undisturbed, and that the
  flag, while the call waits, was set by an Enter of its own time (`GoodCall`). `EnterInv`, beside it, says that every program but
  the top one has been covered since the last Enter, so that a read which resets the flag resets it
  for nobody who still relies on it.
* `FilesProofs`: `TypeCorrect`, `InUseIsOpenedCorrect`, `LeadsToItsFileCorrect`,
  `FileReadInOrderCorrect`, `DirReadListsAllCorrect`. `IInv` is a statement about each descriptor
  (`GoodDesc`) of each process (`GoodRow`): in use only if it was opened or is being opened, its
  table and inode those of its entry, what a directory gave so far the names up to its position, what
  a file gave the bytes up to its position, and not in use in a slot without a process. The last is
  what makes a new process start clean although its control block is old memory. For the bytes,
  `read_data`'s cursor has to be known after any number of bytes: `CursorFacts` gives it as quotient
  and remainder by the size of a block, and `ReadDataFacts` what one read appends. Both are
  inductions over a number, which the library's theorem cannot give here; lemma `Induction` takes a
  *set* that contains 0 and all successors, and follows from the least number outside it.
* `ProgramsProofs`: `ProgramsUseFiles`, `TestsPassCorrect`, `ShellTellsCauseCorrect`,
  `PrintedInFullCorrect`. The first shows that every step of a program, a key or an exception is a
  step of `Files`, so that `IInv` of `FilesProofs` holds here. `ProgramsInv` adds a statement per
  process about the place of its program: `cat` and `ls` have printed what their descriptor has
  delivered (`GoodCopier`), `grep` has looked into the files among the names up to its directory's
  position (`GoodGrep`), `syserr` has failed nothing, and has in use exactly the descriptors that
  `err_open_lots` has opened and not closed so far (`GoodLots`), none elsewhere; a program that a
  shell executed has that shell below, waiting (`ShellWaits`), and what the shell's `execute` returned
  gives the message for what became of it, by `halt`'s own exception too (`GoodAnswer`). That a table
  is clean when a program starts comes from `IInv`.
* `InterruptsProofs`: `TypeCorrect`, `LinesHeardCorrect`, `InterruptsReachHandlersCorrect`,
  `MaskedByHandlerCorrect`, `NoModifierStuckCorrect`, `CharactersFollowKeysCorrect`. `IInv` gives
  the shape of the chain (`Chain`: the boot under nothing but timers, or the first shell on its
  launcher), the exact masks at each stage of the boot (`EarlyOK`), and from the first `sti` on that
  nothing is in service, variables and controllers agree, and a masked keyboard line has its handler
  in the chain with nothing but timers above (`LateOK`). `KeysInv` ties `keyboard_mode` to the keys
  held, the Shift keys lifted and Caps Lock.
* `ScreenProofs`: `TypeCorrect`, `LineFollowsCursorCorrect`. The second needs that the line's first
  cell has not moved up off the screen, and that the column stays on it while a line is followed
  (`LineInv`).
* `LibraryProofs`: `MemoryRoutinesCorrect`, `StringRoutinesCorrect`, `CommandsObeyedCorrect`,
  `PrintfPrintsCorrect`. The state machine is one call; the work is in the functions. Each loop gets a
  closed form: memory after `n` units (`CopiedOn`, `FilledOn`), the digits of a number lowest first,
  the state of `execute`'s loop after `i` characters in terms of the command's words. A function given
  by a first value and a step is the only one with these (`SameSteps`), and that it exists, which the
  prover does not take from a recursive definition, is shown by `Induction` too. The head, the whole
  units and the tail of a copy then add up to one copy (`ThreeParts`); an ascending copy is right
  unless the destination begins inside the source, a descending one if the source begins below
  (`RepMovsCopies`, `RepMovsDownCopies`). `strncmp` decides at the first difference or the first end
  (`strncmpIs`), which orders strings (`strncmpOrders`) and finds the first entry of a name
  (`DentryByNameIs`). For `execute`, `ParseFound` is the loop's invariant: what stands in `name` and
  `argument`, and which bytes of each have been written, at most up to the null behind the word and in
  the argument all of it (`StoredInside`), so that a word too long is seen. For `printf`,
  `PrintAppend` lets a format be taken a piece at a time, `PiecePrints` says what each piece puts on
  the screen and takes, and `CutOn` adds its part to the cut; that the padding of `%#x` is never
  negative is `HexFits`, a number below `Modulus` has at most `HexDigits` hexadecimal digits.

Only model-checked is liveness (`BackToPrograms`, `ReadersProgress`, `EnterEndsRead`,
`ProgramsEnd`): it needs fairness and `ENABLED`, which are out of the prover's reach.

## Plan

1. The contents of the screen: cells, saved screens, and what a suspended program prints and where;
   which reader an Enter belongs to.
2. The executables' own files and the clock in the directory of `Programs`; the programs that wait
   for the clock (`fish`, `pingpong`, `counter`).
3. Their proofs: that a new clock in the directory leaves `ProgramsInv` inductive, and an invariant
   for the other cells beside `LineInv`.

## Not modelled

* The contents of the screen beside the line being typed, saved screens and the page they are copied
  through: nothing in the
  repository says where a suspended program should print. The display's own cursor (`move_curser`)
  is left out: nothing reads it back.
* What a launch with a full process table should do: `Processes`, `Interrupts` and `Screen` do what
  the code does (the terminal is shown and marked in use, and has no shell), without the message
  `execute` prints then, but no property speaks of it, as only a return value nobody reads is
  documented.
* System call numbers 9 and 10, which pass the range check and lie behind the table: what they call
  depends on the assembler's layout.
* Addresses: page tables, where images and saved screens lie in physical memory, segments
  (`x86_desc.*`), the checks and messages about the multiboot information.
* The rest of the scheduler's file, which is commented out (`Buglog.txt`: "Scheduler not integrated
  into OS").
* `clear_buf`, `test_interrupts` and port access in `lib.c`: unused, or one instruction each.
* `grep`'s search in a line; `hello`, `counter`, `testprint`, `pingpong`, `fish`, which use the same
  calls in simpler ways or draw; `emulate`, which runs on Linux; `sigtest`, whose system calls the
  kernel does not have. In the modules other than `Programs` a program may make any system call at
  any time.
* `createfs`, `elfconvert`: binaries without source.
