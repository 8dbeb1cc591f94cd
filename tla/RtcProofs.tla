----------------------------- MODULE RtcProofs ------------------------------
(***************************************************************************)
(* Proofs about Rtc, for every nesting depth, set of requests and contents *)
(* of an uninitialised variable.                                           *)
(***************************************************************************)
EXTENDS Rtc, TLAPS, SequenceTheorems

\* A set flag was set after every rtc_read in progress began: that is what the
\* reset at its beginning achieves, also for the reads further down.
FlagIsFresh ==
    rtc_interrupt_occurred # 0 =>
        \A i \in 1..Depth : calls[i].at = "spin" => calls[i].seen

\* History: every call below the running one is covered.
BelowCovered == \A i \in 1..Depth : i # Depth => calls[i].covered

\* In an undisturbed enable_irq the variable is what was just stored.
CleanEnable == Top.at = "enable_out" /\ ~Top.covered => slave_mask = 0

\* A write holds an open descriptor of the clock, and only open, write and close
\* get into rtc_write.
Fits(call) ==
    /\ call.op # "none" => call.fd \in Slots
    /\ call.op = "write" => call.fd \in ClockFds(call)
    /\ call.op \in {"none", "read"} =>
          call.at \notin Masked \cup {"begin", "disable_out", "opened"}

CallsFit == \A i \in 1..Depth : Fits(calls[i])

IInv == TypeOK /\ FlagIsFresh /\ BelowCovered /\ CleanEnable /\ CallsFit

-----------------------------------------------------------------------------
(* The calls as a sequence.                                                 *)

\* The running call.
LEMMA TopFacts ==
    ASSUME TypeOK
    PROVE  /\ calls \in Seq(Call) /\ Depth \in Nat /\ Depth \in 1..Depth
           /\ Top \in Call
  <1>1. calls \in Seq(Call) /\ Depth \in Nat /\ Depth \in 1..Depth
    BY DepthAssumption DEF TypeOK, Depth
  <1>2. QED
    BY <1>1, ElementOfSeq DEF Top, Depth

\* The program at rest is a call.
LEMMA InProgramCall == InProgram \in Call /\ InProgram.at = "user" /\ Fits(InProgram)
  BY DEF InProgram, Call, Places, Ops, Fits, Masked

\* The program after a system call.
LEMMA ReturnedCall ==
    ASSUME NEW call \in Call
    PROVE  Returned(call) \in Call /\ Returned(call).at = "user" /\ Fits(Returned(call))
  <1>1. /\ Returned(call) \in Call
        /\ Returned(call).at = "user" /\ Returned(call).op = "none"
    <2>1. call.active \in SUBSET Slots /\ call.tables \in SUBSET Slots
      BY DEF Call
    <2>2. InProgram \in Call /\ InProgram.at = "user" /\ InProgram.op = "none"
      BY InProgramCall DEF InProgram
    <2>3. QED
      BY <2>1, <2>2 DEF Returned, Call
  <1>2. QED
    BY <1>1 DEF Fits, Masked

\* A call that goes on to another place.
LEMMA MovedCall ==
    ASSUME NEW call \in Call, NEW place \in Places
    PROVE  /\ [call EXCEPT !.at = place] \in Call
           /\ [call EXCEPT !.at = place].at = place
           /\ Fits(call) /\ call.op \notin {"none", "read"} =>
                 Fits([call EXCEPT !.at = place])
  <1> DEFINE moved == [call EXCEPT !.at = place]
  <1>1. /\ moved \in Call /\ moved.at = place
        /\ moved.op = call.op /\ moved.fd = call.fd
        /\ moved.active = call.active /\ moved.tables = call.tables
    BY DEF Call
  <1> HIDE DEF moved
  <1>2. Fits(call) /\ call.op \notin {"none", "read"} => Fits(moved)
    BY <1>1 DEF Fits, ClockFds
  <1>3. QED
    BY <1>1, <1>2 DEF moved

\* A system call that has just begun.
LEMMA BegunCall ==
    ASSUME NEW call \in Call, NEW op \in Ops, NEW fd \in Slots, NEW freq \in Int
    PROVE  /\ Begun(call, op, fd, freq) \in Call
           /\ Begun(call, op, fd, freq).at = "begin"
           /\ Begun(call, op, fd, freq).op = op
           /\ Begun(call, op, fd, freq).fd = fd
           /\ Begun(call, op, fd, freq).active = call.active
           /\ Begun(call, op, fd, freq).tables = call.tables
  BY DEF Begun, Call, Places

\* The call that open starts with.
LEMMA OpenCall ==
    ASSUME NEW call \in Call, NEW fd \in Slots
    PROVE  LET begun == [Begun(call, "open", fd, 2) EXCEPT !.active = @ \cup {fd}]
           IN  begun \in Call /\ begun.at = "begin" /\ Fits(begun)
  <1> DEFINE plain == Begun(call, "open", fd, 2)
             begun == [plain EXCEPT !.active = @ \cup {fd}]
  <1>1. plain \in Call /\ plain.at = "begin" /\ plain.op = "open" /\ plain.fd = fd
    BY BegunCall DEF Ops
  <1> HIDE DEF plain
  <1>2. begun \in Call /\ begun.at = "begin" /\ begun.op = "open" /\ begun.fd = fd
    BY <1>1 DEF Call
  <1> HIDE DEF begun
  <1>3. Fits(begun)
    BY <1>2 DEF Fits
  <1>4. QED
    BY <1>2, <1>3 DEF begun, plain

\* The call that write starts with.
LEMMA WriteCall ==
    ASSUME NEW call \in Call, NEW fd \in Slots, fd \in ClockFds(call), NEW freq \in Int
    PROVE  LET begun == Begun(call, "write", fd, freq)
           IN  begun \in Call /\ begun.at = "begin" /\ Fits(begun)
  <1>1. "write" \in Ops
    BY DEF Ops
  <1>2. QED
    BY <1>1, BegunCall DEF Fits, ClockFds

\* The call that close starts with.
LEMMA CloseCall ==
    ASSUME NEW call \in Call, NEW fd \in Slots
    PROVE  LET begun == [Begun(call, "close", fd, 2) EXCEPT !.active = @ \ {fd}]
           IN  begun \in Call /\ begun.at = "begin" /\ Fits(begun)
  <1> DEFINE plain == Begun(call, "close", fd, 2)
             begun == [plain EXCEPT !.active = @ \ {fd}]
  <1>1. plain \in Call /\ plain.at = "begin" /\ plain.op = "close" /\ plain.fd = fd
    BY BegunCall DEF Ops
  <1> HIDE DEF plain
  <1>2. begun \in Call /\ begun.at = "begin" /\ begun.op = "close" /\ begun.fd = fd
    BY <1>1 DEF Call
  <1> HIDE DEF begun
  <1>3. Fits(begun)
    BY <1>2 DEF Fits
  <1>4. QED
    BY <1>2, <1>3 DEF begun, plain

\* The call that read starts with.
LEMMA ReadCall ==
    ASSUME NEW call \in Call, NEW fd \in Slots
    PROVE  LET begun == [Begun(call, "read", fd, 0) EXCEPT !.at = "spin"]
           IN  begun \in Call /\ begun.at = "spin" /\ Fits(begun)
  <1> DEFINE plain == Begun(call, "read", fd, 0)
             begun == [plain EXCEPT !.at = "spin"]
  <1>1. plain \in Call /\ plain.op = "read" /\ plain.fd = fd
    BY BegunCall DEF Ops
  <1> HIDE DEF plain
  <1>2. begun \in Call /\ begun.at = "spin" /\ begun.op = "read" /\ begun.fd = fd
    BY <1>1 DEF Call, Places
  <1> HIDE DEF begun
  <1>3. Fits(begun)
    BY <1>2 DEF Fits, Masked
  <1>4. QED
    BY <1>2, <1>3 DEF begun, plain

\* The call after register A is read.
LEMMA ReadsACall ==
    ASSUME NEW call \in Call, Fits(call), call.at = "read_A", NEW upper \in BOOLEAN
    PROVE  LET moved == [call EXCEPT !.at = "write_A", !.upper = upper]
           IN  moved \in Call /\ moved.at = "write_A" /\ Fits(moved)
  <1> DEFINE moved == [call EXCEPT !.at = "write_A", !.upper = upper]
  <1>1. /\ moved \in Call /\ moved.at = "write_A"
        /\ moved.op = call.op /\ moved.fd = call.fd
        /\ moved.active = call.active /\ moved.tables = call.tables
    BY DEF Call, Places
  <1> HIDE DEF moved
  <1>2. Fits(moved)
    BY <1>1 DEF Fits, ClockFds, Masked
  <1>3. QED
    BY <1>1, <1>2 DEF moved

\* The program after open.
LEMMA OpenedCall ==
    ASSUME NEW call \in Call, Fits(call), call.at = "opened"
    PROVE  LET done == Returned([call EXCEPT !.tables = @ \cup {call.fd}])
           IN  done \in Call /\ done.at = "user" /\ Fits(done)
  <1> DEFINE entered == [call EXCEPT !.tables = @ \cup {call.fd}]
  <1>1. entered \in Call
    BY DEF Call, Fits
  <1> HIDE DEF entered
  <1>2. QED
    BY <1>1, ReturnedCall DEF entered

\* The place of a call that is inside rtc_write or open.
LEMMA PlaceTellsOp ==
    ASSUME NEW call \in Call, Fits(call),
           call.at \in Masked \cup {"begin", "disable_out", "opened"}
    PROVE  call.op \notin {"none", "read"}
  BY DEF Fits

\* What a step of the running call does to the calls.
LEMMA SetTopFacts ==
    ASSUME TypeOK, NEW call \in Call, SetTop(call)
    PROVE  /\ calls' \in Seq(Call)
           /\ Depth' = Depth
           /\ Top' = call
           /\ calls'[Depth] = call
           /\ \A i \in 1..Depth : i # Depth => calls'[i] = calls[i]
  <1>1. calls' = [calls EXCEPT ![Depth] = call]
    BY DEF SetTop, ReplaceAt
  <1>2. /\ calls' \in Seq(Call)
        /\ Len(calls') = Len(calls)
    BY <1>1, TopFacts, ExceptSeq DEF Depth
  <1>3. /\ calls'[Depth] = call
        /\ \A i \in 1..Depth : i # Depth => calls'[i] = calls[i]
    BY <1>1, TopFacts, ExceptSeq DEF Depth
  <1>4. Depth' = Depth
    BY <1>2 DEF Depth
  <1>5. QED
    BY <1>2, <1>3, <1>4 DEF Top

\* A step of the running call that keeps the invariant: it may set the flag's
\* part of the state only in the way the flag's meaning allows.
LEMMA TopStepKeepsIInv ==
    ASSUME IInv, NEW call \in Call, SetTop(call),
           rtc_interrupt_occurred' \in Bit, slave_mask' \in Bit, pic_mask' \in Bit,
           index' \in {"A", "B", "C"}, reg_A' \in RegA, irq' \in BOOLEAN,
           rtc_interrupt_occurred' # 0 => rtc_interrupt_occurred # 0,
           rtc_interrupt_occurred' # 0 /\ call.at = "spin" => call.seen,
           call.at = "enable_out" /\ ~call.covered => slave_mask' = 0,
           Fits(call)
    PROVE  IInv'
  <1>1. /\ calls' \in Seq(Call)
        /\ Depth' = Depth
        /\ Top' = call
        /\ calls'[Depth] = call
        /\ \A i \in 1..Depth : i # Depth => calls'[i] = calls[i]
    BY SetTopFacts DEF IInv
  <1>2. TypeOK'
    BY <1>1 DEF IInv, TypeOK
  <1>3. FlagIsFresh' /\ BelowCovered' /\ CleanEnable'
    BY <1>1 DEF IInv, FlagIsFresh, BelowCovered, CleanEnable
  <1>4. CallsFit'
    <2>1. \A i \in 1..Depth : Fits(calls'[i])
      BY <1>1, Zenon DEF IInv, CallsFit
    <2>2. QED
      BY <1>1, <2>1 DEF CallsFit
  <1>5. QED
    BY <1>2, <1>3, <1>4 DEF IInv

-----------------------------------------------------------------------------
(* The invariant.                                                           *)

\* The initial state satisfies it.
LEMMA InitIInv == Init => IInv
  <1> SUFFICES ASSUME Init PROVE IInv
    OBVIOUS
  <1>1. calls = <<InProgram>> /\ calls \in Seq(Call) /\ Len(calls) = 1
    BY InProgramCall DEF Init
  <1>2. TypeOK
    <2>1. reg_A \in RegA
      BY DEF Init, RegA
    <2>2. Depth \in 1..MaxDepth
      BY <1>1, DepthAssumption DEF Depth
    <2>3. QED
      BY <1>1, <2>1, <2>2 DEF Init, TypeOK, Bit
  <1>3. FlagIsFresh /\ BelowCovered /\ CleanEnable
    BY <1>1 DEF Init, FlagIsFresh, BelowCovered, CleanEnable, Depth, Top, InProgram
  <1>4. CallsFit
    BY <1>1, InProgramCall DEF CallsFit, Depth
  <1>5. QED
    BY <1>2, <1>3, <1>4 DEF IInv

\* The handler marks every call and sets the flag.
LEMMA HandlerKeepsIInv == ASSUME IInv, Handler PROVE IInv'
  <1>1. calls \in Seq(Call) /\ Depth \in Nat
    BY TopFacts DEF IInv
  <1>2. /\ calls' \in Seq(Call)
        /\ Len(calls') = Depth
        /\ \A i \in 1..Depth : calls'[i] = [calls[i] EXCEPT !.seen = TRUE]
    <2>1. \A i \in 1..Depth : calls[i] \in Call
      BY <1>1, ElementOfSeq DEF Depth
    <2>2. \A i \in 1..Depth : [calls[i] EXCEPT !.seen = TRUE] \in Call
      BY <2>1 DEF Call
    <2>3. calls' = [i \in 1..Depth |-> [calls[i] EXCEPT !.seen = TRUE]]
      BY DEF Handler
    <2>4. calls' \in [1..Depth -> Call]
      BY <2>2, <2>3
    <2>5. calls' \in Seq(Call) /\ DOMAIN calls' = 1..Depth
      BY <1>1, <2>4, SeqDef
    <2>6. Len(calls') = Depth
      BY <1>1, <2>5, LenProperties
    <2>7. QED
      BY <2>3, <2>5, <2>6
  <1>3. Depth' = Depth
    BY <1>2 DEF Depth
  <1>4. \A i \in 1..Depth : /\ calls'[i].seen
                            /\ calls'[i].at = calls[i].at
                            /\ calls'[i].covered = calls[i].covered
    <2>1. \A i \in 1..Depth : calls[i] \in Call
      BY <1>1, ElementOfSeq DEF Depth
    <2>2. QED
      BY <1>2, <2>1 DEF Call
  <1>5. TypeOK'
    BY <1>2, <1>3 DEF Handler, IInv, TypeOK, Bit, SetFlag, EnabledMask
  <1>6. FlagIsFresh' /\ BelowCovered'
    BY <1>3, <1>4 DEF IInv, FlagIsFresh, BelowCovered
  <1>7. CleanEnable'
    BY DEF Handler, CleanEnable, EnabledMask
  <1>8. CallsFit'
    <2>1. \A call \in Call : Fits(call) => Fits([call EXCEPT !.seen = TRUE])
      BY DEF Fits, ClockFds, Call
    <2>2. \A i \in 1..Depth : calls[i] \in Call /\ Fits(calls[i])
      BY <1>1, ElementOfSeq DEF Depth, IInv, CallsFit
    <2>3. \A i \in 1..Depth : Fits(calls'[i])
      BY <1>2, <2>1, <2>2, Zenon
    <2>4. QED
      BY <1>3, <2>3 DEF CallsFit
  <1>9. QED
    BY <1>5, <1>6, <1>7, <1>8 DEF IInv

\* A new program covers the call it interrupts and has none of its own.
LEMMA LaunchKeepsIInv == ASSUME IInv, Launch PROVE IInv'
  <1> DEFINE covered == [Top EXCEPT !.covered = TRUE]
             s == ReplaceAt(calls, Depth, covered)
  <1>1. /\ calls \in Seq(Call) /\ Depth \in Nat /\ Depth \in 1..Depth
        /\ Depth < MaxDepth
        /\ Top \in Call /\ covered \in Call
        /\ covered.at = Top.at /\ covered.seen = Top.seen /\ covered.covered
    BY TopFacts DEF IInv, Call, Launch
  <1>2. /\ s \in Seq(Call)
        /\ Len(s) = Depth
        /\ s[Depth] = covered
        /\ \A i \in 1..Depth : i # Depth => s[i] = calls[i]
    <2>1. s = [calls EXCEPT ![Depth] = covered]
      BY DEF ReplaceAt
    <2> HIDE DEF s, covered
    <2>2. QED
      BY <1>1, <2>1, ExceptSeq DEF Depth
  <1>3. /\ calls' \in Seq(Call)
        /\ Len(calls') = Depth + 1
        /\ \A i \in 1..Depth : calls'[i] = s[i]
        /\ calls'[Depth + 1] = InProgram
    <2>1. calls' = Append(s, InProgram)
      BY DEF Launch
    <2> HIDE DEF s
    <2>2. QED
      BY <1>2, <2>1, InProgramCall, AppendProperties
  <1>4. Depth' = Depth + 1 /\ Top' = InProgram
    BY <1>3 DEF Depth, Top
  <1>5. TypeOK'
    BY <1>1, <1>3, <1>4, DepthAssumption DEF Launch, IInv, TypeOK
  <1>6. \A i \in 1..Depth : /\ calls'[i].at = calls[i].at
                            /\ calls'[i].seen = calls[i].seen
                            /\ calls'[i].covered
    BY <1>1, <1>2, <1>3 DEF IInv, BelowCovered, Top
  <1>7. FlagIsFresh' /\ BelowCovered'
    <2>1. \A i \in 1..Depth' : i \in 1..Depth \/ i = Depth'
      BY <1>1, <1>4
    <2>2. calls'[Depth'].at = "user"
      BY <1>3, <1>4 DEF InProgram
    <2>3. UNCHANGED rtc_interrupt_occurred
      BY DEF Launch
    <2>4. FlagIsFresh'
      BY <1>6, <2>1, <2>2, <2>3 DEF IInv, FlagIsFresh
    <2>5. BelowCovered'
      BY <1>6, <2>1 DEF BelowCovered
    <2>6. QED
      BY <2>4, <2>5
  <1>8. CleanEnable'
    BY <1>4 DEF CleanEnable, InProgram
  <1>9. CallsFit'
    <2>1. \A call \in Call : Fits(call) => Fits([call EXCEPT !.covered = TRUE])
      BY DEF Fits, ClockFds, Call
    <2>2. Fits(covered)
      BY <1>1, <2>1 DEF IInv, CallsFit, Top
    <2> HIDE DEF covered, s
    <2>3. \A i \in 1..Depth : Fits(s[i])
      BY <1>2, <2>2, Zenon DEF IInv, CallsFit
    <2>4. \A i \in 1..Depth : Fits(calls'[i])
      BY <1>3, <2>3, Zenon
    <2>5. Fits(calls'[Depth + 1])
      BY <1>3, InProgramCall
    <2>6. \A i \in 1..(Depth + 1) : i \in 1..Depth \/ i = Depth + 1
      BY <1>1
    <2>7. QED
      BY <1>4, <2>4, <2>5, <2>6, Zenon DEF CallsFit
  <1>10. QED
    BY <1>5, <1>7, <1>8, <1>9 DEF IInv

\* A program that ends leaves a covered call on top, or a new shell.
LEMMA LeaveKeepsIInv == ASSUME IInv, Leave PROVE IInv'
  <1>1. /\ calls \in Seq(Call) /\ Depth \in Nat /\ Depth \in 1..Depth
        /\ Depth \in 1..MaxDepth
    BY TopFacts DEF IInv, TypeOK
  <1>2. /\ UNCHANGED <<rtc_interrupt_occurred, irq>>
        /\ slave_mask' \in Bit /\ pic_mask' \in Bit
        /\ slave_mask' = slave_mask \/ slave_mask' = 0
        /\ index' \in {"A", "B", "C"} /\ reg_A' \in RegA
    BY DEF Leave, Reset2Hz, EnabledMask, IInv, TypeOK, Bit, RegA
  <1>3. CASE Depth > 1
    <2>1. calls' = SubSeq(calls, 1, Depth - 1)
      BY <1>3 DEF Leave, Front, Depth
    <2>2. /\ calls' \in Seq(Call)
          /\ Len(calls') = Depth - 1
          /\ \A i \in 1..(Depth - 1) : calls'[i] = calls[i]
      BY <1>1, <1>3, <2>1, SubSeqProperties, ElementOfSeq DEF Depth
    <2>3. Depth' = Depth - 1 /\ Top' = calls[Depth - 1]
      BY <1>1, <1>3, <2>2 DEF Depth, Top
    <2>4. TypeOK'
      BY <1>1, <1>2, <1>3, <2>2, <2>3, DepthAssumption DEF IInv, TypeOK
    <2>5. FlagIsFresh' /\ BelowCovered'
      BY <1>1, <1>2, <1>3, <2>2, <2>3 DEF IInv, FlagIsFresh, BelowCovered
    <2>6. CleanEnable'
      BY <1>1, <1>3, <2>3 DEF IInv, BelowCovered, CleanEnable
    <2>7. CallsFit'
      <3>1. \A i \in 1..(Depth - 1) : i \in 1..Depth
        BY <1>1
      <3>2. QED
        BY <2>2, <2>3, <3>1, Zenon DEF IInv, CallsFit
    <2>8. QED
      BY <2>4, <2>5, <2>6, <2>7 DEF IInv
  <1>4. CASE ~(Depth > 1)
    <2>1. calls' = <<InProgram>> /\ calls' \in Seq(Call) /\ Len(calls') = 1
      BY <1>4, InProgramCall DEF Leave
    <2>2. TypeOK'
      BY <1>2, <2>1, DepthAssumption DEF IInv, TypeOK, Depth
    <2>3. FlagIsFresh' /\ BelowCovered' /\ CleanEnable'
      BY <2>1 DEF FlagIsFresh, BelowCovered, CleanEnable, Depth, Top, InProgram
    <2>4. CallsFit'
      BY <2>1, InProgramCall DEF CallsFit, Depth
    <2>5. QED
      BY <2>2, <2>3, <2>4 DEF IInv
  <1>5. QED
    BY <1>3, <1>4

\* Every step keeps the invariant.
LEMMA NextKeepsIInv == IInv /\ [Next]_vars => IInv'
  <1> SUFFICES ASSUME IInv, [Next]_vars
               PROVE  IInv'
    OBVIOUS
  <1>1. /\ Top \in Call /\ Fits(Top)
        /\ rtc_interrupt_occurred \in Bit /\ slave_mask \in Bit /\ pic_mask \in Bit
        /\ index \in {"A", "B", "C"} /\ reg_A \in RegA /\ irq \in BOOLEAN
    BY TopFacts DEF IInv, TypeOK, CallsFit, Top
  <1>2. ASSUME NEW place \in Places,
               Top.at \in Masked \cup {"begin", "disable_out", "opened"}
        PROVE  LET call == [Top EXCEPT !.at = place]
               IN  call \in Call /\ call.at = place /\ Fits(call)
    BY <1>1, <1>2, MovedCall, PlaceTellsOp
  <1>3. Returned(Top) \in Call /\ Returned(Top).at = "user" /\ Fits(Returned(Top))
    BY <1>1, ReturnedCall
  <1>4. 0 \in Bit /\ 1 \in Bit
    BY DEF Bit
  <1>5. ASSUME NEW fd \in Slots, Open(fd)
        PROVE  IInv'
    BY <1>1, <1>5, OpenCall, TopStepKeepsIInv DEF Open
  <1>6. ASSUME NEW fd \in Slots, NEW freq \in Requests, Write(fd, freq)
        PROVE  IInv'
    BY <1>1, <1>6, WriteCall, TopStepKeepsIInv, RequestsAssumption DEF Write
  <1>7. ASSUME NEW fd \in Slots, Close(fd)
        PROVE  IInv'
    BY <1>1, <1>7, CloseCall, TopStepKeepsIInv DEF Close
  <1>8. CASE Disable
    BY <1>1, <1>2, <1>4, <1>8, TopStepKeepsIInv
    DEF Disable, GoTo, Places, DisabledMask
  <1>9. CASE DisableOut
    BY <1>1, <1>2, <1>9, TopStepKeepsIInv DEF DisableOut, GoTo, Places
  <1>10. CASE WriteFails
    BY <1>1, <1>3, <1>10, TopStepKeepsIInv DEF WriteFails
  <1>11. CASE WriteSelects
    BY <1>1, <1>2, <1>11, TopStepKeepsIInv DEF WriteSelects, GoTo, Places, Masked
  <1>12. CASE ReadsA
    <2>1. irq' \in BOOLEAN
      BY <1>1, <1>12 DEF ReadsA
    <2>2. QED
      BY <1>1, <1>12, <2>1, ReadsACall, TopStepKeepsIInv DEF ReadsA
  <1>13. CASE WritesA
    <2>1. \A rate \in Rates(Top.freq) : rate \in 0..15
      BY GarbageAssumption DEF Rates
    <2>2. Top.upper \in BOOLEAN
      BY <1>1 DEF Call
    <2>3. reg_A' \in RegA
      BY <1>1, <1>13, <2>1, <2>2 DEF WritesA, RegA
    <2>4. QED
      BY <1>1, <1>2, <1>13, <2>3, TopStepKeepsIInv DEF WritesA, GoTo, Places, Masked
  <1>14. CASE Enable
    BY <1>1, <1>2, <1>4, <1>14, TopStepKeepsIInv
    DEF Enable, GoTo, Places, Masked, EnabledMask
  <1>15. CASE EnableOut
    <2>1. CASE Top.op = "open"
      BY <1>1, <1>2, <1>15, <2>1, TopStepKeepsIInv DEF EnableOut, GoTo, Places, Masked
    <2>2. CASE Top.op # "open"
      BY <1>1, <1>3, <1>15, <2>2, TopStepKeepsIInv DEF EnableOut
    <2>3. QED
      BY <2>1, <2>2
  <1>16. CASE Opened
    BY <1>1, <1>16, OpenedCall, TopStepKeepsIInv DEF Opened
  <1>17. ASSUME NEW fd \in Slots, Read(fd)
         PROVE  IInv'
    BY <1>1, <1>4, <1>17, ReadCall, TopStepKeepsIInv DEF Read, ResetFlag
  <1>18. CASE ReadReturns
    BY <1>1, <1>3, <1>18, TopStepKeepsIInv DEF ReadReturns
  <1>19. CASE Tick
    BY <1>19
    DEF Tick, IInv, TypeOK, FlagIsFresh, BelowCovered, CleanEnable, CallsFit, Depth, Top
  <1>20. CASE Handler
    BY <1>20, HandlerKeepsIInv
  <1>21. CASE Launch
    BY <1>21, LaunchKeepsIInv
  <1>22. CASE Leave
    BY <1>22, LeaveKeepsIInv
  <1>23. CASE UNCHANGED vars
    BY <1>23
    DEF vars, IInv, TypeOK, FlagIsFresh, BelowCovered, CleanEnable, CallsFit, Depth, Top
  <1>24. QED
    BY <1>5, <1>6, <1>7, <1>8, <1>9, <1>10, <1>11, <1>12, <1>13, <1>14, <1>15, <1>16,
       <1>17, <1>18, <1>19, <1>20, <1>21, <1>22, <1>23 DEF Next, WriteStep

\* The invariant holds in every reachable state.
THEOREM Invariance == Spec => []IInv
  BY InitIInv, NextKeepsIInv, PTL DEF Spec

-----------------------------------------------------------------------------
(* The theorems.                                                            *)

\* Every variable stays in its type.
THEOREM TypeCorrect == Spec => []TypeOK
  <1>1. IInv => TypeOK
    BY DEF IInv
  <1>2. QED
    BY <1>1, Invariance, PTL

\* rtc_read returns only after an interrupt that came after it began.
THEOREM ReadsWaitCorrect == Spec => ReadsWait
  <1>1. IInv /\ [Next]_vars => [ReadReturns => Top.seen]_vars
    <2> SUFFICES ASSUME IInv, ReadReturns PROVE Top.seen
      OBVIOUS
    <2>1. QED
      BY TopFacts DEF IInv, FlagIsFresh, ReadReturns, Top
  <1>2. QED
    BY <1>1, Invariance, PTL DEF Spec, ReadsWait

\* The clock is cut off only by a refused write, a program that ended inside
\* open or close, or an enable_irq another program came on top of.
THEOREM DeafOnlyByFailureCorrect == Spec => DeafOnlyByFailure
  <1> DEFINE Allowed == ~Deaf /\ Deaf' => \/ WriteFails
                                          \/ Leave /\ Top.op \in {"open", "close"}
                                          \/ EnableOut /\ Top.covered
  <1>1. IInv /\ [Next]_vars => [Allowed]_vars
    <2> SUFFICES ASSUME IInv, Next, ~Deaf, Deaf', ~WriteFails,
                        ~(Leave /\ Top.op \in {"open", "close"}),
                        ~(EnableOut /\ Top.covered)
                 PROVE  FALSE
      OBVIOUS
    <2>1. /\ TypeOK /\ Top \in Call /\ Depth \in 1..Depth /\ Depth \in Nat /\ Fits(Top)
      BY TopFacts DEF IInv, CallsFit, Top
    <2>2. pic_mask' = 1 /\ \A i \in 1..Depth' : calls'[i].at \notin Masked
      BY DEF Deaf
    <2>3. ASSUME NEW call \in Call, SetTop(call)
          PROVE  call.at \notin Masked /\ (Top.at \notin Masked => pic_mask # 1)
      BY <2>1, <2>2, <2>3, SetTopFacts DEF Deaf, Top
    <2>4. \A place \in Places : GoTo(place) => place \notin Masked
      <3>1. \A place \in Places :
               LET call == [Top EXCEPT !.at = place]
               IN  call \in Call /\ call.at = place
        BY <2>1, MovedCall
      <3>2. QED
        BY <2>3, <3>1 DEF GoTo
    <2>5. ~(DisableOut \/ WriteSelects \/ WritesA \/ Enable)
      BY <2>4 DEF DisableOut, WriteSelects, WritesA, Enable, Places, Masked
    <2>6. ~ReadsA
      <3>1. [Top EXCEPT !.at = "write_A", !.upper = (index = "A" /\ reg_A.upper)] \in Call
        BY <2>1 DEF Call, Places, TypeOK, RegA
      <3>2. QED
        BY <2>1, <2>3, <3>1 DEF ReadsA, Masked, Call
    <2>7. ~EnableOut
      BY <2>2 DEF EnableOut, IInv, CleanEnable
    <2>8. ASSUME NEW call \in Call, SetTop(call), Top.at \notin Masked, UNCHANGED pic_mask
          PROVE  FALSE
      BY <2>2, <2>3, <2>8
    <2>9. \A fd \in Slots : ~Open(fd) /\ ~Close(fd) /\ ~Read(fd)
      BY <2>1, <2>8, OpenCall, CloseCall, ReadCall DEF Open, Close, Read, Masked
    <2>10. \A fd \in Slots, freq \in Requests : ~Write(fd, freq)
      BY <2>1, <2>8, WriteCall, RequestsAssumption DEF Write, Masked
    <2>11. ~Disable
      BY <2>1, <2>8, MovedCall DEF Disable, GoTo, Masked, Places
    <2>12. ~Opened
      BY <2>1, <2>8, OpenedCall DEF Opened, Masked
    <2>13. ~ReadReturns
      BY <2>1, <2>8, ReturnedCall DEF ReadReturns, Masked
    <2>14. ~Tick
      BY <2>2 DEF Tick, Deaf, Depth
    <2>15. ~Handler
      BY <2>2 DEF Handler, EnabledMask
    <2>16. ~Launch
      <3> SUFFICES ASSUME Launch PROVE FALSE
        OBVIOUS
      <3> DEFINE s == ReplaceAt(calls, Depth, [Top EXCEPT !.covered = TRUE])
      <3>1. /\ s \in Seq(Call)
            /\ Len(s) = Depth
            /\ \A i \in 1..Depth : s[i].at = calls[i].at
        <4> DEFINE covered == [Top EXCEPT !.covered = TRUE]
        <4>1. covered \in Call /\ covered.at = Top.at
          BY <2>1 DEF Call
        <4>2. s = [calls EXCEPT ![Depth] = covered]
          BY DEF ReplaceAt
        <4> HIDE DEF s, covered
        <4>3. QED
          BY <2>1, <4>1, <4>2, TopFacts, ExceptSeq DEF Depth, Top
      <3>2. calls' = Append(s, InProgram) /\ UNCHANGED pic_mask
        BY DEF Launch
      <3> HIDE DEF s
      <3>3. /\ Depth' = Depth + 1
            /\ \A i \in 1..Depth : calls'[i].at = calls[i].at
        BY <2>1, <3>1, <3>2, InProgramCall, AppendProperties DEF Depth
      <3>4. \A i \in 1..Depth : i \in 1..Depth' /\ calls'[i].at \notin Masked
        BY <2>1, <2>2, <3>3
      <3>5. QED
        BY <2>2, <3>2, <3>3, <3>4 DEF Deaf
    <2>17. ~Leave
      <3> SUFFICES ASSUME Leave, Top.op \notin {"open", "close"} PROVE FALSE
        OBVIOUS
      <3>1. ClockFds(Top) = {} /\ pic_mask = 1
        BY <2>2 DEF Leave, Reset2Hz, EnabledMask
      <3>2. Top.op \in {"none", "read"}
        BY <2>1, <3>1 DEF Fits, Call, Ops
      <3>3. Top.at \notin Masked
        BY <2>1, <3>2 DEF Fits
      <3>4. PICK i \in 1..Depth : calls[i].at \in Masked
        BY <3>1 DEF Deaf
      <3>5. i # Depth /\ Depth > 1
        BY <2>1, <3>3, <3>4 DEF Top
      <3>6. calls' = SubSeq(calls, 1, Depth - 1)
        BY <3>5 DEF Leave, Front, Depth
      <3>7. Depth' = Depth - 1 /\ i \in 1..(Depth - 1) /\ calls'[i] = calls[i]
        BY <2>1, <3>4, <3>5, <3>6, SubSeqProperties, ElementOfSeq DEF Depth, TypeOK
      <3>8. QED
        BY <2>2, <3>4, <3>7
    <2>18. QED
      BY <2>5, <2>6, <2>7, <2>9, <2>10, <2>11, <2>12, <2>13, <2>14, <2>15, <2>16, <2>17
      DEF Next, WriteStep
  <1>2. QED
    BY <1>1, Invariance, PTL DEF Spec, DeafOnlyByFailure

\* History: a write about to read register A finds it selected, unless the handler
\* came since it began; and a write that has read wrong divider bits without that
\* read what is still in the register, and no call above it has other bits.
DividerKept ==
    \A i \in 1..Depth :
        /\ calls[i].at = "read_A" => index = "A" \/ calls[i].seen
        /\ calls[i].at = "write_A" /\ ~calls[i].upper /\ ~calls[i].seen =>
              /\ ~reg_A.upper
              /\ \A j \in 1..Depth : j > i /\ calls[j].at = "write_A" => ~calls[j].upper

\* A step of the running call that keeps it.
LEMMA TopStepKeepsDivider ==
    ASSUME TypeOK, DividerKept, NEW call \in Call, SetTop(call),
           index' = index \/ index' = "A",
           call.at = "read_A" => index' = "A",
           reg_A'.upper => reg_A.upper \/ (Top.at = "write_A" /\ Top.upper),
           call.at = "write_A" /\ call.upper => reg_A.upper,
           call.at = "write_A" /\ ~call.upper /\ ~call.seen => ~reg_A'.upper
    PROVE  DividerKept'
  <1>1. /\ Depth' = Depth /\ Depth \in Nat /\ Depth \in 1..Depth
        /\ calls'[Depth] = call
        /\ \A i \in 1..Depth : i # Depth => calls'[i] = calls[i]
    BY SetTopFacts, TopFacts
  <1> SUFFICES ASSUME NEW i \in 1..Depth
               PROVE  /\ calls'[i].at = "read_A" => index' = "A" \/ calls'[i].seen
                      /\ calls'[i].at = "write_A" /\ ~calls'[i].upper /\ ~calls'[i].seen =>
                            /\ ~reg_A'.upper
                            /\ \A j \in 1..Depth :
                                  j > i /\ calls'[j].at = "write_A" => ~calls'[j].upper
    BY <1>1, Zenon DEF DividerKept
  <1>2. CASE i = Depth
    BY <1>1, <1>2
  <1>3. CASE i # Depth
    <2>1. calls'[i] = calls[i] /\ i < Depth
      BY <1>1, <1>3
    <2>2. calls[i].at = "read_A" => index' = "A" \/ calls[i].seen
      BY DEF DividerKept
    <2>3. ASSUME calls[i].at = "write_A", ~calls[i].upper, ~calls[i].seen
          PROVE  /\ ~reg_A'.upper
                 /\ \A j \in 1..Depth : j > i /\ calls'[j].at = "write_A" => ~calls'[j].upper
      <3>1. ~reg_A.upper /\ ~(Top.at = "write_A" /\ Top.upper)
        BY <1>1, <2>1, <2>3 DEF DividerKept, Top
      <3>2. \A j \in 1..Depth : j > i /\ calls[j].at = "write_A" => ~calls[j].upper
        BY <2>3 DEF DividerKept
      <3>3. QED
        BY <1>1, <3>1, <3>2
    <2>4. QED
      BY <2>1, <2>2, <2>3
  <1>4. QED
    BY <1>2, <1>3

\* The same for a step that leaves register A alone and does not go to its accesses.
LEMMA OtherStepKeepsDivider ==
    ASSUME TypeOK, DividerKept, NEW call \in Call, SetTop(call),
           index' = index, reg_A' = reg_A, call.at \notin {"read_A", "write_A"}
    PROVE  DividerKept'
  BY TopStepKeepsDivider

\* The handler marks every call, so nothing is claimed of any.
LEMMA HandlerKeepsDivider == ASSUME TypeOK, Handler PROVE DividerKept'
  <1>1. calls \in Seq(Call) /\ Depth \in Nat
    BY TopFacts
  <1>2. \A i \in 1..Depth : calls[i] \in Call
    BY <1>1, ElementOfSeq DEF Depth
  <1>3. calls' = [i \in 1..Depth |-> [calls[i] EXCEPT !.seen = TRUE]]
    BY DEF Handler
  <1>4. \A i \in 1..Depth : [calls[i] EXCEPT !.seen = TRUE] \in Call
    BY <1>2 DEF Call
  <1>5. calls' \in Seq(Call) /\ DOMAIN calls' = 1..Depth
    BY <1>1, <1>3, <1>4, SeqDef
  <1>6. Depth' = Depth
    BY <1>1, <1>5, LenProperties DEF Depth
  <1>7. \A i \in 1..Depth : calls'[i].seen
    BY <1>2, <1>3 DEF Call
  <1>8. QED
    BY <1>6, <1>7 DEF DividerKept

\* Nothing is claimed of a new program.
LEMMA LaunchKeepsDivider == ASSUME TypeOK, DividerKept, Launch PROVE DividerKept'
  <1> DEFINE covered == [Top EXCEPT !.covered = TRUE]
             s == ReplaceAt(calls, Depth, covered)
  <1>1. /\ calls \in Seq(Call) /\ Depth \in Nat /\ Depth \in 1..Depth
        /\ covered \in Call
        /\ covered.at = Top.at /\ covered.seen = Top.seen /\ covered.upper = Top.upper
    BY TopFacts DEF Call
  <1>2. /\ s \in Seq(Call)
        /\ Len(s) = Depth
        /\ s[Depth] = covered
        /\ \A i \in 1..Depth : i # Depth => s[i] = calls[i]
    <2>1. s = [calls EXCEPT ![Depth] = covered]
      BY DEF ReplaceAt
    <2> HIDE DEF s, covered
    <2>2. QED
      BY <1>1, <2>1, ExceptSeq DEF Depth
  <1>3. /\ Len(calls') = Depth + 1
        /\ \A i \in 1..Depth : calls'[i] = s[i]
        /\ calls'[Depth + 1] = InProgram
    <2>1. calls' = Append(s, InProgram)
      BY DEF Launch
    <2> HIDE DEF s
    <2>2. QED
      BY <1>2, <2>1, InProgramCall, AppendProperties
  <1>4. \A i \in 1..Depth : /\ calls'[i].at = calls[i].at
                            /\ calls'[i].seen = calls[i].seen
                            /\ calls'[i].upper = calls[i].upper
    BY <1>1, <1>2, <1>3 DEF Top
  <1>5. Depth' = Depth + 1 /\ \A i \in 1..(Depth + 1) : i \in 1..Depth \/ i = Depth + 1
    BY <1>1, <1>3 DEF Depth
  <1>6. calls'[Depth + 1].at = "user"
    BY <1>3 DEF InProgram
  <1>7. UNCHANGED <<index, reg_A>>
    BY DEF Launch
  <1> HIDE DEF s, covered
  <1>8. QED
    BY <1>4, <1>5, <1>6, <1>7 DEF DividerKept

\* A program that ends takes its claims with it; halt's close keeps the divider.
LEMMA LeaveKeepsDivider == ASSUME TypeOK, DividerKept, Leave PROVE DividerKept'
  <1>1. /\ calls \in Seq(Call) /\ Depth \in Nat /\ Depth \in 1..Depth
        /\ index' = index \/ index' = "A"
        /\ reg_A'.upper = reg_A.upper
    BY TopFacts DEF Leave, Reset2Hz, TypeOK, RegA
  <1>2. CASE Depth > 1
    <2>1. calls' = SubSeq(calls, 1, Depth - 1)
      BY <1>2 DEF Leave, Front, Depth
    <2>2. Len(calls') = Depth - 1 /\ \A i \in 1..(Depth - 1) : calls'[i] = calls[i]
      BY <1>1, <1>2, <2>1, SubSeqProperties, ElementOfSeq DEF Depth
    <2>3. Depth' = Depth - 1 /\ \A i \in 1..(Depth - 1) : i \in 1..Depth
      BY <1>1, <2>2 DEF Depth
    <2>4. QED
      BY <1>1, <2>2, <2>3 DEF DividerKept
  <1>3. CASE ~(Depth > 1)
    <2>1. calls' = <<InProgram>> /\ Depth' = 1
      BY <1>3 DEF Leave, Depth
    <2>2. calls'[1].at = "user"
      BY <2>1 DEF InProgram
    <2>3. QED
      BY <2>1, <2>2 DEF DividerKept
  <1>4. QED
    BY <1>2, <1>3

\* Every step keeps it.
LEMMA NextKeepsDivider == IInv /\ DividerKept /\ [Next]_vars => DividerKept'
  <1> SUFFICES ASSUME IInv, DividerKept, [Next]_vars
               PROVE  DividerKept'
    OBVIOUS
  <1>1. /\ TypeOK /\ Top \in Call /\ Fits(Top) /\ Depth \in 1..Depth
        /\ index \in {"A", "B", "C"} /\ reg_A \in RegA
    BY TopFacts DEF IInv, TypeOK, CallsFit, Top
  <1>2. ASSUME NEW place \in Places \ {"read_A", "write_A"}, GoTo(place),
               index' = index, reg_A' = reg_A
        PROVE  DividerKept'
    BY <1>1, <1>2, MovedCall, OtherStepKeepsDivider DEF GoTo
  <1>3. ASSUME SetTop(Returned(Top)), index' = index, reg_A' = reg_A
        PROVE  DividerKept'
    BY <1>1, <1>3, ReturnedCall, OtherStepKeepsDivider
  <1>4. ASSUME NEW fd \in Slots, Open(fd) \/ Close(fd) \/ Read(fd)
        PROVE  DividerKept'
    BY <1>1, <1>4, OpenCall, CloseCall, ReadCall, OtherStepKeepsDivider DEF Open, Close, Read
  <1>5. ASSUME NEW fd \in Slots, NEW freq \in Requests, Write(fd, freq)
        PROVE  DividerKept'
    BY <1>1, <1>5, WriteCall, OtherStepKeepsDivider, RequestsAssumption DEF Write
  <1>6. CASE Disable \/ DisableOut \/ Enable
    BY <1>2, <1>6 DEF Disable, DisableOut, Enable, Places
  <1>7. CASE WriteFails \/ ReadReturns
    BY <1>3, <1>7 DEF WriteFails, ReadReturns
  <1>8. CASE EnableOut
    BY <1>2, <1>3, <1>8 DEF EnableOut, Places
  <1>9. CASE Opened
    BY <1>1, <1>9, OpenedCall, OtherStepKeepsDivider DEF Opened
  <1>10. CASE WriteSelects
    <2> DEFINE call == [Top EXCEPT !.at = "read_A"]
    <2>1. call \in Call /\ call.at = "read_A"
      BY <1>1, MovedCall DEF Places
    <2>2. SetTop(call) /\ index' = "A" /\ reg_A' = reg_A
      BY <1>10 DEF WriteSelects, GoTo
    <2> HIDE DEF call
    <2>3. QED
      BY <1>1, <2>1, <2>2, TopStepKeepsDivider
  <1>11. CASE ReadsA
    <2> DEFINE call == [Top EXCEPT !.at = "write_A", !.upper = (index = "A" /\ reg_A.upper)]
    <2>1. /\ call \in Call /\ call.at = "write_A" /\ call.seen = Top.seen
          /\ call.upper = (index = "A" /\ reg_A.upper)
      BY <1>1 DEF Call, Places, RegA
    <2>2. SetTop(call) /\ index' = "A" /\ reg_A' = reg_A /\ Top.at = "read_A"
      BY <1>11 DEF ReadsA
    <2> HIDE DEF call
    <2>3. index = "A" \/ Top.seen
      BY <1>1, <2>2 DEF DividerKept, Top
    <2>4. QED
      BY <1>1, <2>1, <2>2, <2>3, TopStepKeepsDivider
  <1>12. CASE WritesA
    <2> DEFINE call == [Top EXCEPT !.at = "enable"]
    <2>1. call \in Call /\ call.at = "enable"
      BY <1>1, MovedCall DEF Places
    <2>2. SetTop(call) /\ index' = index /\ Top.at = "write_A"
      BY <1>12 DEF WritesA, GoTo
    <2>3. reg_A'.upper => reg_A.upper \/ Top.upper
      BY <1>12 DEF WritesA
    <2> HIDE DEF call
    <2>4. QED
      BY <1>1, <2>1, <2>2, <2>3, TopStepKeepsDivider
  <1>13. CASE Tick \/ UNCHANGED vars
    BY <1>13 DEF Tick, vars, DividerKept, Depth
  <1>14. CASE Handler \/ Launch \/ Leave
    BY <1>1, <1>14, HandlerKeepsDivider, LaunchKeepsDivider, LeaveKeepsDivider
  <1>15. QED
    BY <1>4, <1>5, <1>6, <1>7, <1>8, <1>9, <1>10, <1>11, <1>12, <1>13, <1>14
    DEF Next, WriteStep

\* It holds in every reachable state.
LEMMA DividerInvariance == Spec => []DividerKept
  <1>1. Init => DividerKept
    BY DEF Init, DividerKept, Depth, InProgram
  <1>2. QED
    BY <1>1, Invariance, NextKeepsDivider, PTL DEF Spec

\* Only a request for 1 Hz, or a write that the handler came into, stops the clock
\* or puts it out of step: register A changes in rtc_write, to a rate its switch
\* gives and divider bits it has read, and in halt's close, to the rate of 2 Hz.
THEOREM QuietClockKeepsTickingCorrect == Spec => QuietClockKeepsTicking
  <1>1. TypeOK /\ DividerKept /\ [Next]_vars =>
           [Ticking /\ ~Ticking' => WritesA /\ (Top.freq = 1 \/ Top.seen)]_vars
    <2> SUFFICES ASSUME TypeOK, DividerKept, Next, Ticking, ~Ticking'
                 PROVE  WritesA /\ (Top.freq = 1 \/ Top.seen)
      OBVIOUS
    <2>1. CASE WritesA
      <3>1. PICK rate \in Rates(Top.freq) : reg_A' = [upper |-> Top.upper, rate |-> rate]
        BY <2>1 DEF WritesA, Ticking
      <3>2. ~Top.upper \/ rate = 0
        BY <3>1 DEF Ticking
      <3>3. CASE rate = 0
        BY <2>1, <3>3 DEF Rates
      <3>4. CASE ~Top.upper
        BY <2>1, <3>4, TopFacts DEF WritesA, DividerKept, Top, Ticking
      <3>5. QED
        BY <3>2, <3>3, <3>4
    <2>2. ASSUME UNCHANGED reg_A
          PROVE  FALSE
      BY <2>2 DEF Ticking
    <2>3. ~Leave
      BY <2>2 DEF Leave, Reset2Hz, TypeOK, RegA, Ticking
    <2>4. ~WriteStep \/ WritesA
      BY <2>2 DEF WriteStep, Disable, DisableOut, WriteFails, WriteSelects, ReadsA, Enable,
                  EnableOut, Opened
    <2>5. QED
      BY <2>1, <2>2, <2>3, <2>4 DEF Next, Open, Write, Close, Read, ReadReturns, Tick, Handler,
                                   Launch
  <1>2. QED
    BY <1>1, TypeCorrect, DividerInvariance, PTL DEF Spec, QuietClockKeepsTicking
=============================================================================
