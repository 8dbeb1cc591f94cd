----------------------------- MODULE Interrupts -----------------------------
(***************************************************************************)
(* From power-on to the first shell, and the interrupts from then on: the  *)
(* boot sequence (boot.S, kernel.c), the descriptor table (idt.c), the     *)
(* interrupt controllers (i8259.c), and the handlers of the timer, the     *)
(* clock and the keyboard (scheduler.c, rtc.c, keyboard.c, handlers.S).    *)
(*                                                                         *)
(* frames is the chain of suspended activities, the running one last; each *)
(* is named by what it does next.  The first is the boot, until it has     *)
(* "launched" the first shell.  "user" is a program, in user mode or in a  *)
(* system call; "pit" is the timer's handler; the others are the keyboard  *)
(* handler's, once it has enabled interrupts:                              *)
(*   "launch", "execute", "launched"   in terminal_launch: before its      *)
(*                             enable_irq, its execute, waiting for the    *)
(*                             new shell                                   *)
(*   "eoi", "enable", "return"    at the end of keyboard_int_handler       *)
(* Code that runs with interrupts disabled is one step.                    *)
(***************************************************************************)
EXTENDS Scancodes, Sequences, SequencesExt

CONSTANTS
    NUM_TERM,       \* terminals
    MAX_PROCESSES,  \* slots of the process table
    MAX_FRAMES      \* bound: activities in the chain for an interrupt to add one more

ASSUME SizesAssumption ==
    /\ NUM_TERM \in Nat \ {0}
    /\ MAX_PROCESSES \in Nat \ {0}
    /\ MAX_FRAMES \in Nat \ {0}

VARIABLES
    frames,         \* the chain of activities
    iflag,          \* are interrupts enabled in the processor
    idt_loaded,     \* is the interrupt descriptor table in use
    vectors,        \* each controller's first vector
    irq_mask,       \* the lines masked in master_mask and slave_mask
    imr,            \* the lines masked in the controllers themselves
    isr,            \* the lines in service in the controllers
    paging,         \* is paging on
    kernel_mapped,  \* does the page directory have the kernel's page
    is_in_use_flag, \* terminal -> has a shell been launched on it
    cur_term_id     \* the terminal on the screen

controllerVars == <<vectors, irq_mask, imr, isr>>

terminalVars == <<is_in_use_flag, cur_term_id>>

pagingVars == <<paging, kernel_mapped>>

vars == <<frames, iflag, idt_loaded, controllerVars, pagingVars, terminalVars,
          scancodeVars>>

Terminals == 0..(NUM_TERM - 1)

BootStages == {"init_idt", "i8259_init", "rtc_init", "pit_init", "open_keyboard", "sti",
               "initialize_paging", "init_terminals"}

HandlerPlaces == {"launch", "execute", "eoi", "enable", "return"}

Activities == BootStages \cup HandlerPlaces \cup {"launched", "user", "pit"}

Top == Last(frames)

Become(activity) == frames' = Append(Front(frames), activity)

Suspended(activity) == Append(frames, activity)

Programs == Cardinality({i \in 1..Len(frames) : frames[i] = "user"})

-----------------------------------------------------------------------------
(* The interrupt controllers (i8259.c): the master has lines 0 to 7, the    *)
(* slave 8 to 15.                                                           *)

PIT_IRQ == 0
KEYBOARD_IRQ == 1
SLAVE_IRQ == 2
RTC_IRQ == 8

Lines == 0..15

Master == 0..7

ControllerOf(line) == IF line \in Master THEN Master ELSE Lines \ Master

Unmasked(mask, line) == mask \ {line}

Masked(mask, line) == mask \cup {line}

\* outb of one controller's half of the mask.
Output(line, mask) == (imr \ ControllerOf(line)) \cup (mask \cap ControllerOf(line))

\* enable_irq
EnableIrq(line) ==
    /\ irq_mask' = Unmasked(irq_mask, line)
    /\ imr' = Output(line, irq_mask')

\* disable_irq
DisableIrq(line) ==
    /\ irq_mask' = Masked(irq_mask, line)
    /\ imr' = Output(line, irq_mask')

\* disable_irq and later enable_irq, while nothing else can run.
DisableAndEnableIrq(line) ==
    /\ irq_mask' = Unmasked(Masked(irq_mask, line), line)
    /\ imr' = Output(line, irq_mask')

\* send_eoi; a line of the slave is acknowledged in both controllers.
AfterEoi(service, line) ==
    IF line \in Master THEN service \ {line} ELSE service \ {line, SLAVE_IRQ}

\* A line is taken into service; the slave's go through the master's line 2.
InService(line) == isr \cup {line} \cup (IF line \in Master THEN {} ELSE {SLAVE_IRQ})

\* A line's request reaches the processor: nothing masks it, and no line of the
\* same or a higher priority is in service on its way.
CanInterrupt(line) ==
    /\ iflag
    /\ line \notin imr
    /\ isr \cap 0..(IF line \in Master THEN line ELSE SLAVE_IRQ) = {}
    /\ line \notin Master => SLAVE_IRQ \notin imr /\ isr \cap 8..line = {}
    /\ Len(frames) < MAX_FRAMES

VectorOf(line) == IF line \in Master THEN vectors.master + line ELSE vectors.slave + line - 8

-----------------------------------------------------------------------------
(* Boot.                                                                    *)

NUM_VEC == 256
EXCEPTION_NUM == 32

SetHandlers == 0..14 \cup 16..20 \cup {30}

\* init_idt: the handler of every vector.  generic_handler is a C function, which
\* does not return as a handler must.
idt == [v \in 0..(NUM_VEC - 1) |->
          CASE v < EXCEPTION_NUM -> IF v \in SetHandlers THEN "exception" ELSE "none"
            [] v = 32  -> "pit_handler"
            [] v = 33  -> "keyboard_handler"
            [] v = 40  -> "rtc_handler"
            [] v = 128 -> "main_syscall"
            [] OTHER   -> "generic_handler"]

\* The firmware and the loader leave any line of the controllers open.
Init ==
    /\ frames = <<"init_idt">>
    /\ iflag = FALSE
    /\ idt_loaded = FALSE
    /\ vectors = [master |-> 8, slave |-> 112]
    /\ irq_mask = Lines
    /\ imr = {}
    /\ isr = {}
    /\ paging = FALSE
    /\ kernel_mapped = FALSE
    /\ is_in_use_flag = [t \in Terminals |-> FALSE]
    /\ cur_term_id = 0
    /\ ScancodesInit

InitIdt ==
    /\ Top = "init_idt"
    /\ idt_loaded' = TRUE
    /\ Become("i8259_init")
    /\ UNCHANGED <<iflag, controllerVars, pagingVars, terminalVars, scancodeVars>>

MasterVectors == [vectors EXCEPT !.master = 32]

InitVectors == [master |-> 32, slave |-> 40]

\* The initialization words clear the controllers' own masks; the enable_irq at
\* the end writes the master's only.
I8259Init ==
    /\ Top = "i8259_init"
    /\ vectors' = InitVectors
    /\ isr' = {}
    /\ irq_mask' = Unmasked(irq_mask, SLAVE_IRQ)
    /\ imr' = irq_mask' \cap Master
    /\ Become("rtc_init")
    /\ UNCHANGED <<iflag, idt_loaded, pagingVars, terminalVars, scancodeVars>>

DeviceInit(stage, line, next) ==
    /\ Top = stage
    /\ EnableIrq(line)
    /\ Become(next)
    /\ UNCHANGED <<iflag, idt_loaded, vectors, isr, pagingVars, terminalVars, scancodeVars>>

RtcInit == DeviceInit("rtc_init", RTC_IRQ, "pit_init")

PitInit == DeviceInit("pit_init", PIT_IRQ, "open_keyboard")

OpenKeyboard == DeviceInit("open_keyboard", KEYBOARD_IRQ, "sti")

\* entry's sti.
Sti ==
    /\ Top = "sti"
    /\ iflag' = TRUE
    /\ Become("initialize_paging")
    /\ UNCHANGED <<idt_loaded, controllerVars, pagingVars, terminalVars, scancodeVars>>

InitializePaging ==
    /\ Top = "initialize_paging"
    /\ kernel_mapped' = TRUE
    /\ paging' = TRUE
    /\ Become("init_terminals")
    /\ UNCHANGED <<iflag, idt_loaded, controllerVars, terminalVars, scancodeVars>>

\* init_terminals, which executes the first shell.
InitTerminals ==
    /\ Top = "init_terminals"
    /\ is_in_use_flag' = [t \in Terminals |-> t = 0]
    /\ cur_term_id' = 0
    /\ frames' = Front(frames) \o <<"launched", "user">>
    /\ UNCHANGED <<iflag, idt_loaded, controllerVars, pagingVars, scancodeVars>>

-----------------------------------------------------------------------------
(* Programs.                                                                *)

\* Where halt goes on: in the parent, in the handler that launched the program,
\* or, for process 0, in a new shell.
Parent(chain) == IF Last(chain) = "launched" THEN Append(Front(chain), "eoi") ELSE chain

\* The last program in the chain.
TopProgram == CHOOSE i \in 1..Len(frames) :
                 frames[i] = "user" /\ \A j \in (i + 1)..Len(frames) : frames[j] # "user"

NoNewShell == Parent(SubSeq(frames, 1, TopProgram - 1))

\* halt ends the last program and every activity on its kernel stack.
AfterHalt ==
    IF Programs = 1 THEN SubSeq(frames, 1, TopProgram)
                    ELSE Parent(SubSeq(frames, 1, TopProgram - 1))

\* execute by a program, when there is room in the process table.
Execute ==
    /\ Top = "user"
    /\ Programs < MAX_PROCESSES
    /\ frames' = Suspended("user")
    /\ UNCHANGED <<iflag, idt_loaded, controllerVars, pagingVars, terminalVars, scancodeVars>>

\* halt by a program, or by the handler of an exception it raises.
Halt ==
    /\ Top = "user"
    /\ frames' = AfterHalt
    /\ UNCHANGED <<iflag, idt_loaded, controllerVars, pagingVars, terminalVars, scancodeVars>>

\* A program's calls to the clock mask its line and unmask it (module Rtc).
ClockCall ==
    /\ Top = "user"
    /\ DisableIrq(RTC_IRQ) \/ EnableIrq(RTC_IRQ)
    /\ UNCHANGED <<frames, iflag, idt_loaded, vectors, isr, pagingVars, terminalVars,
                   scancodeVars>>

-----------------------------------------------------------------------------
(* The timer and the clock.                                                 *)

\* pit_irq_sched_handler acknowledges and enables interrupts again.
PitInterrupt ==
    /\ CanInterrupt(PIT_IRQ)
    /\ isr' = AfterEoi(InService(PIT_IRQ), PIT_IRQ)
    /\ frames' = Suspended("pit")
    /\ UNCHANGED <<iflag, idt_loaded, vectors, irq_mask, imr, pagingVars, terminalVars,
                   scancodeVars>>

PitReturns ==
    /\ Top = "pit"
    /\ frames' = Front(frames)
    /\ UNCHANGED <<iflag, idt_loaded, controllerVars, pagingVars, terminalVars, scancodeVars>>

\* rtc_irq_handler; what it does to a program's calls is in module Rtc.
RtcInterrupt ==
    /\ CanInterrupt(RTC_IRQ)
    /\ DisableAndEnableIrq(RTC_IRQ)
    /\ isr' = AfterEoi(InService(RTC_IRQ), RTC_IRQ)
    /\ UNCHANGED <<frames, iflag, idt_loaded, vectors, pagingVars, terminalVars, scancodeVars>>

-----------------------------------------------------------------------------
(* The keyboard handler.  Keys that use the terminals or the processes are  *)
(* pressed once these have been initialised; see KeysAtBoot for earlier     *)
(* ones.                                                                    *)

Booted == frames[1] = "launched"

\* The handler to its end with interrupts disabled.
HandledAtOnce ==
    /\ CanInterrupt(KEYBOARD_IRQ)
    /\ DisableAndEnableIrq(KEYBOARD_IRQ)
    /\ isr' = AfterEoi(InService(KEYBOARD_IRQ), KEYBOARD_IRQ)
    /\ UNCHANGED <<iflag, idt_loaded, vectors>>

\* A key that changes the modifiers.
PressModifier ==
    /\ HandledAtOnce
    /\ ModifierKey
    /\ UNCHANGED <<frames, pagingVars, terminalVars>>

\* Any other key, but for Ctrl+C and Alt+Fn: what it does to the line and the
\* screen is in modules Keyboard and Screen.
PressOtherKey ==
    /\ HandledAtOnce
    /\ UNCHANGED <<frames, pagingVars, terminalVars, scancodeVars>>

\* Ctrl+C: the handler acknowledges, unmasks its line and calls halt, which does
\* not return.
CtrlC ==
    /\ ctrl_flag = PRESS_CTRL
    /\ Booted
    /\ HandledAtOnce
    /\ frames' = AfterHalt
    /\ UNCHANGED <<pagingVars, terminalVars, scancodeVars>>

LateEoi == isr \cup {KEYBOARD_IRQ}

EarlyEoi == AfterEoi(InService(KEYBOARD_IRQ), KEYBOARD_IRQ)

\* Alt+Fn: the handler acknowledges before terminal_LoS, which enables interrupts.
AltFn(t, activity) ==
    /\ CanInterrupt(KEYBOARD_IRQ)
    /\ alt_flag = PRESS_ALT
    /\ Booted
    /\ DisableIrq(KEYBOARD_IRQ)
    /\ isr' = EarlyEoi
    /\ cur_term_id' = t
    /\ frames' = Suspended(activity)
    /\ UNCHANGED <<iflag, idt_loaded, vectors, pagingVars, scancodeVars>>

\* terminal_change, and terminal_LoS for the terminal that is shown.
ChangeTerminal(t) ==
    /\ is_in_use_flag[t]
    /\ AltFn(t, "eoi")
    /\ UNCHANGED is_in_use_flag

\* terminal_launch up to its sti.
LaunchTerminal(t) ==
    /\ ~is_in_use_flag[t]
    /\ AltFn(t, "launch")
    /\ is_in_use_flag' = [is_in_use_flag EXCEPT ![t] = TRUE]

\* A step of a handler that only enables a line.
Enables(from, to) ==
    /\ Top = from
    /\ EnableIrq(KEYBOARD_IRQ)
    /\ Become(to)
    /\ UNCHANGED <<iflag, idt_loaded, vectors, isr, pagingVars, terminalVars, scancodeVars>>

LaunchForgets ==
    /\ Top = "launch"
    /\ Become("execute")
    /\ UNCHANGED <<iflag, idt_loaded, controllerVars, pagingVars, terminalVars, scancodeVars>>

LaunchEnables == Enables("launch", "execute")

\* execute disables interrupts.  The new shell runs with interrupts enabled; with
\* a full process table execute returns with interrupts disabled.
LaunchExecutes ==
    /\ Top = "execute"
    /\ \/ /\ Programs < MAX_PROCESSES
          /\ frames' = Front(frames) \o <<"launched", "user">>
          /\ iflag' = TRUE
       \/ /\ Programs = MAX_PROCESSES
          /\ Become("eoi")
          /\ iflag' = FALSE
    /\ UNCHANGED <<idt_loaded, controllerVars, pagingVars, terminalVars, scancodeVars>>

HandlerAcknowledges ==
    /\ Top = "eoi"
    /\ isr' = AfterEoi(isr, KEYBOARD_IRQ)
    /\ Become("enable")
    /\ UNCHANGED <<iflag, idt_loaded, vectors, irq_mask, imr, pagingVars, terminalVars,
                   scancodeVars>>

HandlerEnables == Enables("enable", "return")

\* iret restores the flag of the interrupted activity, which had it set.
HandlerReturns ==
    /\ Top = "return"
    /\ frames' = Front(frames)
    /\ iflag' = TRUE
    /\ UNCHANGED <<idt_loaded, controllerVars, pagingVars, terminalVars, scancodeVars>>

-----------------------------------------------------------------------------
Boot ==
    \/ InitIdt
    \/ I8259Init
    \/ RtcInit
    \/ PitInit
    \/ OpenKeyboard
    \/ Sti
    \/ InitializePaging
    \/ InitTerminals

Program ==
    \/ Execute
    \/ Halt
    \/ ClockCall

Key ==
    \/ PressModifier
    \/ PressOtherKey
    \/ CtrlC
    \/ \E t \in Terminals : ChangeTerminal(t) \/ LaunchTerminal(t)

Handler ==
    \/ PitInterrupt
    \/ PitReturns
    \/ RtcInterrupt
    \/ LaunchEnables
    \/ LaunchExecutes
    \/ HandlerAcknowledges
    \/ HandlerEnables
    \/ HandlerReturns

Next == Boot \/ Program \/ Key \/ Handler

Spec == Init /\ [][Next]_vars

\* The same with Ctrl+C and Alt+Fn pressed before initialize_paging: terminal_save
\* and halt both change a page directory entry and turn paging on.
KeysAtBoot ==
    /\ Top = "initialize_paging"
    /\ HandledAtOnce
    /\ ctrl_flag = PRESS_CTRL \/ (alt_flag = PRESS_ALT /\ NUM_TERM > 1)
    /\ paging' = TRUE
    /\ UNCHANGED <<frames, kernel_mapped, terminalVars, scancodeVars>>

BootSpec == Init /\ [][Next \/ KeysAtBoot]_vars

-----------------------------------------------------------------------------
(* Properties.                                                              *)

TypeOK ==
    /\ frames \in Seq(Activities) /\ frames # <<>>
    /\ iflag \in BOOLEAN
    /\ idt_loaded \in BOOLEAN
    /\ vectors \in [master : 0..248, slave : 0..248]
    /\ irq_mask \subseteq Lines
    /\ imr \subseteq Lines
    /\ isr \subseteq Lines
    /\ paging \in BOOLEAN
    /\ kernel_mapped \in BOOLEAN
    /\ is_in_use_flag \in [Terminals -> BOOLEAN]
    /\ cur_term_id \in Terminals
    /\ ScancodesTypeOK

\* Whenever a program runs, the timer, the keyboard and the clock can interrupt it
\* (the clock unless a program has masked its line): no launch, switch or kill
\* leaves a line masked, one in service, or interrupts disabled, whichever handlers
\* it cuts short and whether or not its execute fails.  (send_eoi, disable_irq,
\* enable_irq and the sti's of keyboard.c, halt, execute)
LinesHeard ==
    Top = "user" => /\ iflag
                    /\ isr = {}
                    /\ {PIT_IRQ, KEYBOARD_IRQ, SLAVE_IRQ} \cap imr = {}

HandlerFor(line) ==
    CASE line = PIT_IRQ      -> "pit_handler"
      [] line = KEYBOARD_IRQ -> "keyboard_handler"
      [] line = RTC_IRQ      -> "rtc_handler"
      [] OTHER               -> "no line to be unmasked"

\* Once interrupts are enabled, every line the controllers let through has its own
\* handler at the vector they send.  (init_idt, i8259_init, and the order of entry)
InterruptsReachHandlers ==
    iflag => /\ idt_loaded
             /\ \A line \in Lines \ (imr \cup {SLAVE_IRQ}) :
                   idt[VectorOf(line)] = HandlerFor(line)

\* The controllers mask what the variables say, from the first interrupt on, and
\* the keyboard's line is masked only between its handler's disable_irq and
\* enable_irq, under nothing but timer interrupts.  (enable_irq, disable_irq)
MaskedByHandler ==
    iflag => /\ imr = irq_mask
             /\ KEYBOARD_IRQ \in imr =>
                   \E n \in 1..Len(frames) :
                      /\ frames[n] \in {"launch", "eoi", "enable"}
                      /\ \A i \in (n + 1)..Len(frames) : frames[i] = "pit"

-----------------------------------------------------------------------------
(* What the comments say and the code does not do.                          *)

\* kernel.c has "Initialize devices, memory, filesystem" come before "Enable
\* interrupts": whenever paging is on, the kernel's own page is there.
KernelMapped == paging => kernel_mapped
=============================================================================
