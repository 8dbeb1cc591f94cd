-------------------------------- MODULE Rtc ---------------------------------
(***************************************************************************)
(* The real time clock: rtc_read and rtc_write, its interrupt handler, the *)
(* mask of its line in the interrupt controller, and the descriptors it is *)
(* opened through (rtc.c, i8259.c, system_call.c).  rtc_open and rtc_close *)
(* are writes of 2 Hz; halt closes what the program has open.              *)
(*                                                                         *)
(* System calls run with interrupts enabled, so between any two accesses   *)
(* to a variable or a port the handler may run, a key may launch a shell   *)
(* on top of the call (which then waits until that shell has gone), and    *)
(* Ctrl+C or an exception may end the call.  The handler runs with         *)
(* interrupts disabled: it is one step.  A step here joins accesses        *)
(* between which none of these changes what follows.  The kernel is built  *)
(* without optimisation: each use of slave_mask loads it again.            *)
(*                                                                         *)
(* calls[i].at is the place in the i-th nested program's system call:      *)
(*   "user"         in the program                                         *)
(*   "begin"        about to enter disable_irq                             *)
(*   "disable_out"  in disable_irq, slave_mask stored                      *)
(*   "check"        in rtc_write, disable_irq done                         *)
(*   "read_A"       register A selected, before it is read                 *)
(*   "write_A"      register A read and selected again                     *)
(*   "enable"       register A written                                     *)
(*   "enable_out"   in enable_irq, slave_mask stored                       *)
(*   "opened"       in open, rtc_open done                                 *)
(*   "spin"         in the loop of rtc_read                                *)
(***************************************************************************)
EXTENDS Integers, Sequences, FiniteSets, SequencesExt

CONSTANTS
    MaxDepth,       \* nested programs
    Slots,          \* descriptors a program uses for the clock
    Requests,       \* 4-byte values programs write to the device
    Garbage         \* low four bits an uninitialised variable can hold

ASSUME DepthAssumption == MaxDepth \in Nat \ {0}

ASSUME SlotsAssumption == Slots \subseteq 2..7

ASSUME RequestsAssumption == Requests \subseteq Int

ASSUME GarbageAssumption == Garbage \subseteq 0..15 /\ Garbage # {}

VARIABLES
    calls,                  \* the nested programs' system calls
    rtc_interrupt_occurred, \* 0 or 1
    slave_mask,             \* the clock's bit of the variable: 1 is masked
    pic_mask,               \* the clock's bit of the controller's register
    index,                  \* the register port 0x70 selects
    reg_A,                  \* register A: are its upper bits right, and the rate
    irq                     \* the clock's interrupt line, up until C is read

vars == <<calls, rtc_interrupt_occurred, slave_mask, pic_mask, index, reg_A, irq>>

Bit == {0, 1}

Places == {"user", "begin", "disable_out", "check", "read_A", "write_A", "enable",
           "enable_out", "opened", "spin"}

Ops == {"none", "open", "read", "write", "close"}

\* The part of rtc_write that leads to enable_irq.
Masked == {"check", "read_A", "write_A", "enable", "enable_out"}

RegA == [upper : BOOLEAN, rate : 0..15]

\* active: the descriptors in use; tables: those whose operations table is the
\* clock's, which close leaves as it is.  A descriptor that served another file
\* in between counts as never used.  freq is the argument of rtc_write; upper
\* tells whether prev_reg_A has the upper bits of register A.  The last two are
\* history: since this call began, has an interrupt occurred, and has another
\* program run on top of it.
Call == [at : Places, op : Ops, fd : Slots \cup {0}, active : SUBSET Slots,
         tables : SUBSET Slots, freq : Int, upper : BOOLEAN,
         seen : BOOLEAN, covered : BOOLEAN]

\* A new program: its predecessor's halt has reset the descriptors.
InProgram ==
    [at |-> "user", op |-> "none", fd |-> 0, active |-> {}, tables |-> {},
     freq |-> 0, upper |-> FALSE, seen |-> FALSE, covered |-> FALSE]

\* A system call begins, or ends.
Begun(call, op, fd, freq) ==
    [call EXCEPT !.at = "begin", !.op = op, !.fd = fd, !.freq = freq,
                 !.upper = FALSE, !.seen = FALSE, !.covered = FALSE]

Returned(call) == [InProgram EXCEPT !.active = call.active, !.tables = call.tables]

\* The descriptors that read and write take to the clock, and that halt closes.
ClockFds(call) == call.active \cap call.tables

Depth == Len(calls)

Top == calls[Depth]

SetTop(call) == calls' = ReplaceAt(calls, Depth, call)

GoTo(place) == SetTop([Top EXCEPT !.at = place])

-----------------------------------------------------------------------------
(* The values of the rate field.                                            *)

MAX_FREQ == 1024

PowersOfTwo == {2^k : k \in 0..10}

\* The requests rtc_write does not refuse.
Accepted(freq) == freq \in PowersOfTwo

UnmaskedRates(freq) ==
    {r \in 6..15 : 2^(16 - r) = freq} \cup (IF freq = 1 THEN {g + 16 : g \in Garbage} ELSE {})

\* The switch, which has no case for 1: rate then holds what the stack held.
Rates(freq) == {r \in 6..15 : 2^(16 - r) = freq} \cup (IF freq = 1 THEN Garbage ELSE {})

\* Periodic interrupts are off when the rate is 0.  With wrong divider bits the
\* oscillator runs at another frequency or not at all: the clock may still tick,
\* but nothing is promised of it.
Ticking == reg_A.upper /\ reg_A.rate # 0

-----------------------------------------------------------------------------
(* i8259.c, for the clock's line.                                           *)

\* disable_irq and enable_irq: what the variable becomes.
DisabledMask == 1

StaysMasked == 1

EnabledMask == 0

-----------------------------------------------------------------------------
(* The steps.                                                               *)

\* After rtc_init: line enabled, 2 Hz.
Init ==
    /\ calls = <<InProgram>>
    /\ rtc_interrupt_occurred = 0
    /\ slave_mask = 0
    /\ pic_mask = 0
    /\ index = "B"
    /\ reg_A = [upper |-> TRUE, rate |-> 15]
    /\ irq = FALSE

\* open takes a descriptor and calls rtc_open.
Open(fd) ==
    /\ Top.at = "user"
    /\ fd \notin Top.active
    /\ SetTop([Begun(Top, "open", fd, 2) EXCEPT !.active = @ \cup {fd}])
    /\ UNCHANGED <<rtc_interrupt_occurred, slave_mask, pic_mask, index, reg_A, irq>>

\* write calls rtc_write.
Write(fd, freq) ==
    /\ Top.at = "user"
    /\ fd \in ClockFds(Top)
    /\ SetTop(Begun(Top, "write", fd, freq))
    /\ UNCHANGED <<rtc_interrupt_occurred, slave_mask, pic_mask, index, reg_A, irq>>

\* close gives the descriptor back and calls rtc_close.
Close(fd) ==
    /\ Top.at = "user"
    /\ fd \in ClockFds(Top)
    /\ SetTop([Begun(Top, "close", fd, 2) EXCEPT !.active = @ \ {fd}])
    /\ UNCHANGED <<rtc_interrupt_occurred, slave_mask, pic_mask, index, reg_A, irq>>

\* rtc_write begins: the first half of disable_irq.
Disable ==
    /\ Top.at = "begin"
    /\ GoTo("disable_out")
    /\ slave_mask' = DisabledMask
    /\ UNCHANGED <<rtc_interrupt_occurred, pic_mask, index, reg_A, irq>>

\* The second half of disable_irq.
DisableOut ==
    /\ Top.at = "disable_out"
    /\ GoTo("check")
    /\ pic_mask' = slave_mask
    /\ UNCHANGED <<rtc_interrupt_occurred, slave_mask, index, reg_A, irq>>

\* A wrong length, a null pointer or a wrong frequency: return -1.
WriteFails ==
    /\ Top.at = "check"
    /\ Top.op = "write"
    /\ SetTop(Returned(Top))
    /\ UNCHANGED <<rtc_interrupt_occurred, slave_mask, pic_mask, index, reg_A, irq>>

\* The arguments are right: select register A.
WriteSelects ==
    /\ Top.at = "check"
    /\ Accepted(Top.freq)
    /\ GoTo("read_A")
    /\ index' = "A"
    /\ UNCHANGED <<rtc_interrupt_occurred, slave_mask, pic_mask, reg_A, irq>>

\* Read the register that is selected, and select A again.  Reading C drops
\* the interrupt line.
ReadsA ==
    /\ Top.at = "read_A"
    /\ SetTop([Top EXCEPT !.at = "write_A", !.upper = (index = "A" /\ reg_A.upper)])
    /\ irq' = (irq /\ index # "C")
    /\ index' = "A"
    /\ UNCHANGED <<rtc_interrupt_occurred, slave_mask, pic_mask, reg_A>>

\* Write the rate to the register that is selected: C cannot be written.
WritesA ==
    /\ Top.at = "write_A"
    /\ GoTo("enable")
    /\ IF index = "A"
         THEN \E rate \in Rates(Top.freq) : reg_A' = [upper |-> Top.upper, rate |-> rate]
         ELSE reg_A' = reg_A
    /\ UNCHANGED <<rtc_interrupt_occurred, slave_mask, pic_mask, index, irq>>

\* The first half of enable_irq.
Enable ==
    /\ Top.at = "enable"
    /\ GoTo("enable_out")
    /\ slave_mask' = EnabledMask
    /\ UNCHANGED <<rtc_interrupt_occurred, pic_mask, index, reg_A, irq>>

\* The second half of enable_irq; rtc_write returns, and write and close with it.
EnableOut ==
    /\ Top.at = "enable_out"
    /\ IF Top.op = "open" THEN GoTo("opened") ELSE SetTop(Returned(Top))
    /\ pic_mask' = slave_mask
    /\ UNCHANGED <<rtc_interrupt_occurred, slave_mask, index, reg_A, irq>>

\* open enters the clock's table and returns.
Opened ==
    /\ Top.at = "opened"
    /\ SetTop(Returned([Top EXCEPT !.tables = @ \cup {Top.fd}]))
    /\ UNCHANGED <<rtc_interrupt_occurred, slave_mask, pic_mask, index, reg_A, irq>>

\* What rtc_read does to the flag when it begins.
KeptFlag == rtc_interrupt_occurred

ResetFlag == 0

\* rtc_read begins.
Read(fd) ==
    /\ Top.at = "user"
    /\ fd \in ClockFds(Top)
    /\ SetTop([Begun(Top, "read", fd, 0) EXCEPT !.at = "spin"])
    /\ rtc_interrupt_occurred' = ResetFlag
    /\ UNCHANGED <<slave_mask, pic_mask, index, reg_A, irq>>

\* rtc_read sees the flag and returns 0.
ReadReturns ==
    /\ Top.at = "spin"
    /\ rtc_interrupt_occurred # 0
    /\ SetTop(Returned(Top))
    /\ UNCHANGED <<rtc_interrupt_occurred, slave_mask, pic_mask, index, reg_A, irq>>

\* The clock's period ends.
Tick ==
    /\ reg_A.rate # 0
    /\ ~irq
    /\ irq' = TRUE
    /\ UNCHANGED <<calls, rtc_interrupt_occurred, slave_mask, pic_mask, index, reg_A>>

\* What rtc_irq_handler does to the flag.
NoFlag == rtc_interrupt_occurred

SetFlag == 1

\* rtc_irq_handler, from its disable_irq to its enable_irq.
Handler ==
    /\ irq
    /\ pic_mask = 0
    /\ index' = "C"
    /\ irq' = FALSE
    /\ rtc_interrupt_occurred' = SetFlag
    /\ slave_mask' = EnabledMask
    /\ pic_mask' = EnabledMask
    /\ calls' = [i \in 1..Depth |-> [calls[i] EXCEPT !.seen = TRUE]]
    /\ UNCHANGED reg_A

\* A key starts a shell on top of whatever runs, or the program executes one.
Launch ==
    /\ Depth < MaxDepth
    /\ calls' = Append(ReplaceAt(calls, Depth, [Top EXCEPT !.covered = TRUE]), InProgram)
    /\ UNCHANGED <<rtc_interrupt_occurred, slave_mask, pic_mask, index, reg_A, irq>>

\* As Reset2Hz, without the read of the register.
BlindReset2Hz ==
    /\ slave_mask' = EnabledMask
    /\ pic_mask' = EnabledMask
    /\ index' = "A"
    /\ reg_A' = [upper |-> FALSE, rate |-> 15]

\* The rtc_write of 2 Hz in halt's close: interrupts are disabled.
Reset2Hz ==
    /\ slave_mask' = EnabledMask
    /\ pic_mask' = EnabledMask
    /\ index' = "A"
    /\ reg_A' = [reg_A EXCEPT !.rate = 15]

\* The running program halts, or Ctrl+C or an exception ends it and its call.
\* The last one is replaced by a new shell.
Leave ==
    /\ calls' = IF Depth > 1 THEN Front(calls) ELSE <<InProgram>>
    /\ IF ClockFds(Top) # {}
         THEN Reset2Hz
         ELSE UNCHANGED <<slave_mask, pic_mask, index, reg_A>>
    /\ UNCHANGED <<rtc_interrupt_occurred, irq>>

WriteStep ==
    \/ Disable
    \/ DisableOut
    \/ WriteFails
    \/ WriteSelects
    \/ ReadsA
    \/ WritesA
    \/ Enable
    \/ EnableOut
    \/ Opened

Next ==
    \/ \E fd \in Slots :
          \/ Open(fd)
          \/ \E freq \in Requests : Write(fd, freq)
          \/ Close(fd)
          \/ Read(fd)
    \/ WriteStep
    \/ ReadReturns
    \/ Tick
    \/ Handler
    \/ Launch
    \/ Leave

Spec == Init /\ [][Next]_vars

\* The processor executes the running call; the clock ticks and its interrupt
\* is taken, as long as its divider is right.  Programs and keys are not assumed to do anything.
FairSpec ==
    /\ Spec
    /\ WF_vars(WriteStep)
    /\ WF_vars(ReadReturns)
    /\ WF_vars(Ticking /\ Tick)
    /\ WF_vars(Handler)

-----------------------------------------------------------------------------
(* Properties.                                                              *)

TypeOK ==
    /\ calls \in Seq(Call) /\ Depth \in 1..MaxDepth
    /\ rtc_interrupt_occurred \in Bit
    /\ slave_mask \in Bit
    /\ pic_mask \in Bit
    /\ index \in {"A", "B", "C"}
    /\ reg_A \in RegA
    /\ irq \in BOOLEAN

\* rtc_read returns only after an interrupt that came after it began, although
\* the flag is shared with every program started on top of it and a program
\* that was killed may have left it set.  (rtc_read)
ReadsWait == [][ReadReturns => Top.seen]_vars

\* The clock is cut off: masked, and no call will unmask it.
Deaf == pic_mask = 1 /\ \A i \in 1..Depth : calls[i].at \notin Masked

\* A refused rtc_write cuts the clock off, and so can a program that ends inside
\* open or close, at once or through the slave_mask it leaves to the interrupted
\* enable_irq below it.  Nothing else does: whenever the handler runs, an
\* accepted write that no other program came on top of leaves the line enabled,
\* and a program killed inside a write or a read does, because halt closes the
\* descriptor it used.  (rtc_write's early returns, enable_irq, halt)
DeafOnlyByFailure ==
    [][~Deaf /\ Deaf' => \/ WriteFails
                         \/ Leave /\ Top.op \in {"open", "close"}
                         \/ EnableOut /\ Top.covered]_vars

\* A clock that ticks is stopped or put out of step only by a request for 1 Hz or
\* by a write the handler came into: whatever calls are interrupted by other
\* programs, killed or refused on the way to register A, an accepted write that
\* no clock interrupt came into writes back the divider bits it found, also when
\* programs on top of it wrote the register in between.  If the handler comes
\* between the selection of register A and the read, register C is read, and its
\* upper bits replace those that were to be kept.
\* (the read of register A and the switch of rtc_write, halt's close)
QuietClockKeepsTicking ==
    [][Ticking /\ ~Ticking' => WritesA /\ (Top.freq = 1 \/ Top.seen)]_vars

\* A reader gets its tick as long as the line is enabled and the clock has a
\* rate; until then it only stops reading by being killed or covered by a new
\* shell.  (rtc_read, rtc_irq_handler)
ReadersProgress ==
    (Top.at = "spin" /\ pic_mask = 0 /\ Ticking) ~> (Top.at # "spin")

-----------------------------------------------------------------------------
(* What the comments say and the code does not do.                          *)

\* "Set reg A with new frequency" (rtc.c): after that statement register A has
\* the rate that was asked for.
NewFrequencySet == [][WritesA => reg_A'.rate \in Rates(Top.freq)]_vars
=============================================================================
