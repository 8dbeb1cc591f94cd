----------------------------- MODULE Processes ------------------------------
(***************************************************************************)
(* Processes of chapOS: the execute and halt system calls, exceptions,     *)
(* Ctrl+C and the Alt+Fn keys that open or show a terminal                 *)
(* (system_call.c, sys_call_asm_link.S, idt.c, keyboard.c, paging.c).      *)
(*                                                                         *)
(* Kernel stack number p serves process p, with p's control block at its   *)
(* low end.  A kernel stack is a sequence of frames, each a place where    *)
(* kernel code is, or will continue:                                       *)
(*                                                                         *)
(*   "halt", "execute", "other"  in the stub of that system call, after    *)
(*                               its sti and before the body's cli; val is *)
(*                               the status given to halt                  *)
(*   "exception"                 in an exception handler, before halt(1)   *)
(*   "launch"                    the keyboard handler is in                *)
(*                               terminal_launch, after its sti            *)
(*   "wait_syscall",             inside execute, which that caller called, *)
(*   "wait_launch"               while the child runs on the next stack    *)
(*   "answer"                    execute has returned val to its stub      *)
(*   "launched"                  terminal_launch has returned val to the   *)
(*                               keyboard handler                          *)
(*                                                                         *)
(* intr tells whether interrupts are enabled there.  The processor is in   *)
(* user mode exactly when the stack its next entry will use is empty.      *)
(***************************************************************************)
EXTENDS Integers, Sequences, FiniteSets, SequencesExt

CONSTANTS
    MAX_PROCESSES,  \* slots of the process table
    NUM_TERM,       \* terminals
    Programs,       \* names of executable files
    Shell,          \* the program "shell"
    Statuses        \* values a program leaves in EBX when it calls halt

ASSUME SizesAssumption ==
    MAX_PROCESSES \in Nat \ {0} /\ NUM_TERM \in Nat \ {0}

ASSUME ProgramsAssumption == Shell \in Programs

ASSUME StatusesAssumption == Statuses \subseteq Nat

VARIABLES
    proc_id_flags,   \* slot -> 0 or 1, the process table
    active_proc_num, \* the process the kernel believes is running
    pcb,             \* slot -> process control block
    kstack,          \* slot -> kernel stack
    esp,             \* the kernel stack the processor is on
    esp0,            \* tss.esp0, the kernel stack an entry from user mode uses
    user_img,        \* the page frame mapped at the program's address
    page,            \* page frame -> the program whose image it holds
    is_in_use_flag,  \* terminal -> has a shell been launched on it
    cur_term_id      \* the terminal on the screen

vars == <<proc_id_flags, active_proc_num, pcb, kstack, esp, esp0, user_img,
          page, is_in_use_flag, cur_term_id>>

ProcIds == 0..(MAX_PROCESSES - 1)

Terminals == 0..(NUM_TERM - 1)

FLAG_INACTIVE == 0

FLAG_ACTIVE == 1

EXCEPT_RETVAL == 1

Waiting == {"wait_syscall", "wait_launch"}

Places == Waiting \cup {"halt", "execute", "other", "exception", "launch",
                        "answer", "launched"}

Frame == [at : Places, val : Int, intr : BOOLEAN]

Context == [slot : ProcIds, depth : Nat]

PCB == [proc_num : ProcIds, parent_proc_num : ProcIds, ksp : Context]

-----------------------------------------------------------------------------
(* Kernel stacks.                                                           *)

\* A frame of code that runs with interrupts enabled.
Open(place, value) == [at |-> place, val |-> value, intr |-> TRUE]

\* A frame of code that runs with interrupts disabled.
Closed(place, value) == [at |-> place, val |-> value, intr |-> FALSE]

InUser == kstack[esp] = <<>>

TopFrame == Last(kstack[esp])

TopIs(place) == ~InUser /\ TopFrame.at = place

\* A keyboard interrupt can be taken here.
Interruptible == ~InUser => TopFrame.intr

WithTop(stack, frame) == ReplaceAt(stack, Len(stack), frame)

\* The system call stub, the exception or the interrupt handler enters the
\* kernel.  In user mode esp already names the stack of tss.esp0.
Enter(frame) ==
    /\ kstack' = [kstack EXCEPT ![esp] = Append(@, frame)]
    /\ UNCHANGED <<proc_id_flags, active_proc_num, pcb, esp, esp0, user_img, page>>

\* The code of the top frame ends.  With the last frame the iret goes to user
\* mode: what the stack of tss.esp0 holds will be overwritten by the next entry.
Leave ==
    /\ LET rest == Front(kstack[esp])
       IN  IF rest = <<>>
             THEN /\ kstack' = [kstack EXCEPT ![esp] = rest, ![esp0] = <<>>]
                  /\ esp' = esp0
             ELSE /\ kstack' = [kstack EXCEPT ![esp] = rest]
                  /\ esp' = esp
    /\ UNCHANGED <<proc_id_flags, active_proc_num, pcb, esp0, user_img, page,
                   is_in_use_flag, cur_term_id>>

\* get_pcb_ptr: the control block at the low end of the current stack.
CurPcb == pcb[esp]

-----------------------------------------------------------------------------
(* execute                                                                  *)

\* gen_new_proc_id: the free slots and the one that is taken.
FreeSlots(flags) == {p \in ProcIds : flags[p] = FLAG_INACTIVE}

LowestFree(flags) ==
    CHOOSE p \in FreeSlots(flags) : \A q \in FreeSlots(flags) : p <= q

NewProcId(flags) == LowestFree(flags)

\* mapUserImgPage: the page frame of a process.
FixedImage(p) == 0

ImagePage(p) == p

\* The parent number execute writes into the new control block.
OwnNumber(new) == pcb[new].proc_num

ParentNumber(new) == IF new = 0 THEN 0 ELSE pcb[new - 1].proc_num

\* The kernel stack entered next time, set from a process number.
StackAtPcb(p) == p + 1

StackOf(p) == p

\* execute from gen_new_proc_id to the iret, for the caller whose frames are
\* stacks[esp].  The iret leaves nothing on the stack that tss.esp0 names, so
\* it is empty from then on, and the next entry is on that stack.
Start(prog, flags, stacks) ==
    LET new == NewProcId(flags)
    IN  /\ proc_id_flags' = [flags EXCEPT ![new] = FLAG_ACTIVE]
        /\ active_proc_num' = new
        /\ user_img' = ImagePage(new)
        /\ page' = [page EXCEPT ![ImagePage(new)] = prog]
        /\ pcb' = [pcb EXCEPT ![new] =
                     [proc_num |-> new,
                      parent_proc_num |-> ParentNumber(new),
                      ksp |-> [slot |-> esp, depth |-> Len(stacks[esp])]]]
        /\ esp0' = StackOf(new)
        /\ esp' = StackOf(new)
        /\ kstack' = [stacks EXCEPT ![StackOf(new)] = <<>>]

RetryFrame(caller) == Open(caller, 0)

\* execute returns -1 to its caller: the stub passes it on, terminal_launch
\* ignores it and returns 0.
FailedFrame(caller) ==
    IF caller = "execute" THEN Closed("answer", -1) ELSE Closed("launched", 0)

ExecuteFails ==
    /\ kstack' = [kstack EXCEPT ![esp] = WithTop(@, FailedFrame(TopFrame.at))]
    /\ UNCHANGED <<proc_id_flags, active_proc_num, pcb, esp, esp0, user_img, page>>

ProgramWaits(caller) == Closed("wait_syscall", 0)

WaitingFrame(caller) ==
    Closed(IF caller = "execute" THEN "wait_syscall" ELSE "wait_launch", 0)

ExecuteStarts(prog) ==
    Start(prog, proc_id_flags,
          [kstack EXCEPT ![esp] = WithTop(@, WaitingFrame(TopFrame.at))])

-----------------------------------------------------------------------------
(* halt                                                                     *)

\* The value left in EAX for the caller of execute.
ReturnCode(status) == IF status % 256 = 1 THEN 256 ELSE status % 256

AnsweredFrame(frame, status) == Open("answer", ReturnCode(status))

\* RET_FROM_IRET: execute returns, with interrupts enabled, to its caller.
ReturnedFrame(frame, status) ==
    IF frame.at = "wait_syscall" THEN Open("answer", ReturnCode(status))
                                 ELSE Open("launched", 0)

\* The stack as it was when esp was saved, its last frame continuing.
Continued(stack, depth, status) ==
    ReplaceAt(SubSeq(stack, 1, depth), depth, ReturnedFrame(stack[depth], status))

\* mapUserImgPage(cur_PCB->parent_proc_num)
NotRemapped(parent) == user_img

RestoredImage(parent) == ImagePage(parent)

\* proc_id_flags[active_proc_num] = FLAG_INACTIVE
FlagsLeft == proc_id_flags

FlagsCleared == [proc_id_flags EXCEPT ![active_proc_num] = FLAG_INACTIVE]

\* halt of a process other than 0: back into the execute that started it.
HaltToParent(status) ==
    LET parent == CurPcb.parent_proc_num
        sp == CurPcb.ksp
    IN  /\ proc_id_flags' = FlagsCleared
        /\ active_proc_num' = parent
        /\ user_img' = RestoredImage(parent)
        /\ esp0' = StackOf(parent)
        /\ esp' = sp.slot
        /\ kstack' = [[kstack EXCEPT ![esp] = <<>>] EXCEPT
                         ![sp.slot] = Continued(@, sp.depth, status)]
        /\ UNCHANGED <<pcb, page>>

\* halt(status): process 0 is replaced by a new shell, started from its stack.
HaltBody(status) ==
    /\ IF active_proc_num = 0
         THEN Start(Shell, FlagsCleared, kstack)
         ELSE HaltToParent(status)
    /\ UNCHANGED <<is_in_use_flag, cur_term_id>>

-----------------------------------------------------------------------------
(* The steps of the system.                                                 *)

\* The state init_terminals leaves: the first shell runs on terminal 0.  The
\* other control blocks hold whatever the memory held.
Init ==
    /\ proc_id_flags = [p \in ProcIds |-> IF p = 0 THEN FLAG_ACTIVE ELSE FLAG_INACTIVE]
    /\ active_proc_num = 0
    /\ \E g \in ProcIds :
         pcb = [p \in ProcIds |->
                  [proc_num |-> IF p = 0 THEN 0 ELSE g,
                   parent_proc_num |-> IF p = 0 THEN 0 ELSE g,
                   ksp |-> [slot |-> IF p = 0 THEN 0 ELSE g, depth |-> 0]]]
    /\ kstack = [p \in ProcIds |-> <<>>]
    /\ esp = 0
    /\ esp0 = 0
    /\ user_img = 0
    /\ page = [p \in ProcIds |-> Shell]
    /\ is_in_use_flag = [t \in Terminals |-> t = 0]
    /\ cur_term_id = 0

\* A program calls halt.
SyscallHalt(status) ==
    /\ InUser
    /\ Enter(Open("halt", status))
    /\ UNCHANGED <<is_in_use_flag, cur_term_id>>

\* A program calls execute.
SyscallExecute ==
    /\ InUser
    /\ Enter(Open("execute", 0))
    /\ UNCHANGED <<is_in_use_flag, cur_term_id>>

\* A program makes any of the other system calls.
SyscallOther ==
    /\ InUser
    /\ Enter(Open("other", 0))
    /\ UNCHANGED <<is_in_use_flag, cur_term_id>>

\* Exceptions come through trap gates: interrupts stay disabled where execute has
\* disabled them before it reads the command.
ExceptionFrame == [at |-> "exception", val |-> EXCEPT_RETVAL, intr |-> ~TopIs("execute")]

\* An exception in the program, or in a system call that uses its pointers.
Fault ==
    /\ InUser \/ TopIs("other") \/ TopIs("execute")
    /\ Enter(ExceptionFrame)
    /\ UNCHANGED <<is_in_use_flag, cur_term_id>>

\* Alt+Fn for a terminal without a shell: the keyboard handler puts the
\* terminal on the screen, then enables interrupts.
LaunchTerminal(t) ==
    /\ Interruptible
    /\ t # cur_term_id
    /\ ~is_in_use_flag[t]
    /\ Enter(Open("launch", 0))
    /\ is_in_use_flag' = [is_in_use_flag EXCEPT ![t] = TRUE]
    /\ cur_term_id' = t

\* Alt+Fn for a terminal that has its shell: only the screen changes.
ChangeTerminal(t) ==
    /\ Interruptible
    /\ t # cur_term_id
    /\ is_in_use_flag[t]
    /\ cur_term_id' = t
    /\ UNCHANGED <<proc_id_flags, active_proc_num, pcb, kstack, esp, esp0, user_img,
                   page, is_in_use_flag>>

\* Ctrl+C: the keyboard handler halts the process it interrupted.
CtrlC ==
    /\ Interruptible
    /\ HaltBody(0)

\* The body of halt, for a system call or an exception.
Halt ==
    /\ TopIs("halt") \/ TopIs("exception")
    /\ HaltBody(TopFrame.val)

\* execute runs a program.
Execute(prog) ==
    /\ TopIs("execute") \/ (TopIs("launch") /\ prog = Shell)
    /\ FreeSlots(proc_id_flags) # {}
    /\ ExecuteStarts(prog)
    /\ UNCHANGED <<is_in_use_flag, cur_term_id>>

\* execute of a command that names no executable file.
ExecuteNotFound ==
    /\ TopIs("execute")
    /\ ExecuteFails
    /\ UNCHANGED <<is_in_use_flag, cur_term_id>>

\* execute when the process table is full.
ExecuteTooMany ==
    /\ TopIs("execute") \/ TopIs("launch")
    /\ FreeSlots(proc_id_flags) = {}
    /\ ExecuteFails
    /\ UNCHANGED <<is_in_use_flag, cur_term_id>>

\* execute's result, or another system call's, goes to the program.
SyscallReturn ==
    /\ TopIs("answer") \/ TopIs("other")
    /\ Leave

\* The keyboard handler that launched a terminal ends.
HandlerReturn ==
    /\ TopIs("launched")
    /\ Leave

Next ==
    \/ \E status \in Statuses : SyscallHalt(status)
    \/ SyscallExecute
    \/ SyscallOther
    \/ Fault
    \/ \E t \in Terminals : LaunchTerminal(t)
    \/ \E t \in Terminals : ChangeTerminal(t)
    \/ CtrlC
    \/ Halt
    \/ \E prog \in Programs : Execute(prog)
    \/ ExecuteNotFound
    \/ ExecuteTooMany
    \/ SyscallReturn
    \/ HandlerReturn

Spec == Init /\ [][Next]_vars

-----------------------------------------------------------------------------
(* Fairness.  Kernel code between two waits runs to its end: the processor  *)
(* executes its next instruction.  Nothing is assumed of programs, of the   *)
(* keys that are pressed, or of system calls that wait for input.           *)

KernelRuns ==
    /\ WF_vars(Halt)
    /\ WF_vars((\E prog \in Programs : Execute(prog)) \/ ExecuteNotFound \/ ExecuteTooMany)
    /\ WF_vars(TopIs("answer") /\ SyscallReturn)
    /\ WF_vars(HandlerReturn)

FairSpec == Spec /\ KernelRuns

-----------------------------------------------------------------------------
(* Properties.                                                              *)

TypeOK ==
    /\ proc_id_flags \in [ProcIds -> {FLAG_INACTIVE, FLAG_ACTIVE}]
    /\ active_proc_num \in ProcIds
    /\ pcb \in [ProcIds -> PCB]
    /\ kstack \in [ProcIds -> Seq(Frame)]
    /\ esp \in ProcIds
    /\ esp0 \in ProcIds
    /\ user_img \in ProcIds
    /\ page \in [ProcIds -> Programs]
    /\ is_in_use_flag \in [Terminals -> BOOLEAN]
    /\ cur_term_id \in Terminals

\* The process table is exactly the processes below and including the running
\* one: no slot leaks when an execute fails or a process is killed, and none is
\* given out twice.  (gen_new_proc_id, halt)
TableIsStack ==
    \A p \in ProcIds : proc_id_flags[p] = FLAG_ACTIVE <=> p <= active_proc_num

\* The places that say which process runs agree whenever the kernel can be
\* entered: active_proc_num, the stack get_pcb_ptr masks, tss.esp0 and the page
\* directory; and the control block found on the stack of a process is its own.
\* (execute and halt set each of them separately)
OneCurrentProcess ==
    /\ esp = active_proc_num
    /\ esp0 = active_proc_num
    /\ user_img = active_proc_num
    /\ \A p \in ProcIds : p <= active_proc_num => pcb[p].proc_num = p

\* A process returns to whoever started it: the parent number execute takes from
\* the slot below is the process whose stack its saved esp points into, that
\* esp still is the end of that stack, and execute is waiting there.
\* (execute's PCB set-up, halt's RET_FROM_IRET)
ParentIsCaller ==
    \A p \in ProcIds : 0 < p /\ p <= active_proc_num =>
        LET sp == pcb[p].ksp
        IN  /\ pcb[p].parent_proc_num = p - 1
            /\ sp.slot = p - 1
            /\ sp.depth = Len(kstack[p - 1])
            /\ sp.depth > 0
            /\ kstack[p - 1][sp.depth].at \in Waiting

\* The frames of a kernel stack tell one story: a stack above the running
\* process is empty; execute waits only at the end of a suspended process's
\* stack; a program's own call of execute, or its answer, lies under everything
\* else on its stack; halt will be given a status some program passed.
FramesInOrder ==
    \A p \in ProcIds :
        /\ p > active_proc_num => kstack[p] = <<>>
        /\ \A i \in 1..Len(kstack[p]) :
              LET frame == kstack[p][i]
              IN  /\ frame.at \in Waiting => p < active_proc_num /\ i = Len(kstack[p])
                  /\ frame.at \in {"execute", "answer"} => i = 1
                  /\ frame.at = "wait_syscall" => i = 1
                  /\ frame.at = "halt" => frame.val \in Statuses
                  /\ frame.at = "exception" => frame.val = EXCEPT_RETVAL

\* Nothing the running process or a key stroke does reaches a suspended process:
\* its kernel stack, control block and memory stay as they were until every
\* process above it has halted.
SuspendedUntouched ==
    [][\A p \in ProcIds : p < active_proc_num /\ p < active_proc_num' =>
          UNCHANGED <<kstack[p], pcb[p], page[p]>>]_vars

\* The kernel always gets back to running a program or to waiting for one's
\* input, whatever nest of half-finished launches, exceptions and halts the keys
\* and the programs have built.
BackToPrograms == ~InUser ~> (InUser \/ TopIs("other"))

\* The abstract view of process p.
Asked(p) == kstack[p] # <<>> /\ Last(kstack[p]).at = "wait_syscall"

Answers(p) ==
    IF kstack[p] # <<>> /\ kstack[p][1].at = "answer" THEN {kstack[p][1].val} ELSE {}

ProcessView(p) == [prog |-> page[p], asked |-> Asked(p), answer |-> Answers(p)]

ProcessViews == [i \in 1..(active_proc_num + 1) |-> ProcessView(i - 1)]

Abstract == INSTANCE ProcessStack WITH
    MaxDepth <- MAX_PROCESSES,
    Statuses <- Statuses \cup {0, EXCEPT_RETVAL},   \* of Ctrl+C and exceptions
    procs <- ProcessViews

\* With all its tables, stacks and registers the kernel does what ProcessStack
\* says: a strict stack of processes, each answered once by its own child.
ImplementsProcessStack == Abstract!Spec
=============================================================================
