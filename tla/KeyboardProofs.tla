--------------------------- MODULE KeyboardProofs ---------------------------
(***************************************************************************)
(* Proofs about module Keyboard.  The inductive invariant says of every    *)
(* nested call what it has copied, and of the last line entered what of it *)
(* is still in the buffer.                                                 *)
(***************************************************************************)
EXTENDS Keyboard, TLAPS, SequenceTheorems

\* The last line entered, as long as it is intact, begins the buffer, and the null
\* key follows it if there is room.
LineInBuffer(buffer, ent) ==
    ent.intact =>
        /\ Len(ent.line) <= KEYBOARD_NUM_KEYS
        /\ \A k \in 1..Len(ent.line) : buffer[k - 1] = ent.line[k]
        /\ Len(ent.line) < KEYBOARD_NUM_KEYS => buffer[Len(ent.line)] = KEY_NULL

\* A call, with what it may rely on: the flag, the buffer on the screen, and
\* whether the last line is intact.
GoodCall(c, flag, buffer, intact) ==
    /\ c.at = "user" => ~c.quiet
    /\ c.at = "spin" => c.i = 0 /\ c.got = <<>> /\ ~c.quiet /\ (flag = 1 => c.answered)
    /\ c.at = "copy" => Len(c.got) = c.i /\ (c.i = 0 \/ c.i <= c.nbytes)
    /\ c.at = "check" => c.i < KEYBOARD_NUM_KEYS /\ c.i < c.nbytes /\ Len(c.got) = c.i + 1
    /\ c.quiet => /\ intact
                  /\ \A k \in 1..Len(c.got) : c.got[k] = buffer[k - 1]
                  /\ \A k \in 1..c.i : c.got[k] # KEY_NULL

Shown == buffer_key[cur_term_id]

CallsGood ==
    \A n \in 1..Depth : GoodCall(calls[n], return_flag, Shown, entered.intact)

\* The inductive invariant.
IInv == TypeOK /\ LineInBuffer(Shown, entered) /\ CallsGood

-----------------------------------------------------------------------------
(* Facts about the parts of the state.                                      *)

AnyKey == Keys \cup {KEY_NULL}

\* The running call.
LEMMA TopFacts ==
    ASSUME TypeOK
    PROVE  /\ calls \in Seq(Call) /\ Depth \in Nat /\ Depth \in 1..Depth
           /\ Top \in Call
  <1>1. calls \in Seq(Call) /\ Depth \in Nat /\ Depth \in 1..Depth
    BY BoundsAssumption DEF TypeOK, Depth
  <1>2. QED
    BY <1>1, ElementOfSeq DEF Top, Depth

\* The program at rest is a call.
LEMMA InProgramFacts ==
    /\ InProgram \in Call
    /\ \A flag, buffer, intact : GoodCall(InProgram, flag, buffer, intact)
  <1>1. /\ InProgram.at = "user" /\ InProgram.i = 0 /\ InProgram.got = <<>>
        /\ InProgram.quiet = FALSE /\ InProgram.nbytes = 0 /\ InProgram.answered = FALSE
    BY DEF InProgram
  <1>2. <<>> \in Seq(AnyKey)
    BY EmptySeq
  <1>3. InProgram \in Call
    BY <1>2, BoundsAssumption DEF InProgram, Call, Cells, AnyKey
  <1> HIDE DEF InProgram
  <1>4. QED
    BY <1>1, <1>3 DEF GoodCall

\* A copy in progress that is disturbed relies on nothing but the flag.
LEMMA DisturbedCall ==
    ASSUME NEW c \in Call, NEW f, NEW b, NEW i, GoodCall(c, f, b, i)
    PROVE  /\ [c EXCEPT !.quiet = FALSE] \in Call
           /\ \A buffer, intact : GoodCall([c EXCEPT !.quiet = FALSE], f, buffer, intact)
  <1> DEFINE d == [c EXCEPT !.quiet = FALSE]
  <1>1. /\ d \in Call /\ d.quiet = FALSE
        /\ d.at = c.at /\ d.i = c.i /\ d.got = c.got /\ d.nbytes = c.nbytes
        /\ d.answered = c.answered
    BY DEF Call
  <1> HIDE DEF d
  <1>2. \A buffer, intact : GoodCall(d, f, buffer, intact)
    BY <1>1 DEF GoodCall
  <1>3. QED
    BY <1>1, <1>2 DEF d

AnsweredOf(c, b) == [c EXCEPT !.quiet = FALSE, !.answered = TRUE, !.covered = b]

LEMMA AnsweredCall ==
    ASSUME NEW c \in Call, NEW f, NEW b, NEW i, GoodCall(c, f, b, i), NEW v \in BOOLEAN
    PROVE  /\ AnsweredOf(c, v) \in Call
           /\ \A flag, buffer, intact : GoodCall(AnsweredOf(c, v), flag, buffer, intact)
  <1> DEFINE d == AnsweredOf(c, v)
  <1>1. /\ d \in Call /\ d.quiet = FALSE
        /\ d.at = c.at /\ d.i = c.i /\ d.got = c.got /\ d.nbytes = c.nbytes
        /\ d.answered = TRUE
    BY DEF Call, AnsweredOf
  <1> HIDE DEF d
  <1>2. \A flag, buffer, intact : GoodCall(d, flag, buffer, intact)
    BY <1>1 DEF GoodCall
  <1>3. QED
    BY <1>1, <1>2 DEF d

\* The calls after a key.
LEMMA DisturbedFacts ==
    ASSUME IInv
    PROVE  LET s == Disturbed(calls)
           IN  /\ s \in Seq(Call) /\ Len(s) = Depth
               /\ \A n \in 1..Depth : \A buffer, intact :
                     GoodCall(s[n], return_flag, buffer, intact)
  <1> DEFINE s == Disturbed(calls)
  <1>1. calls \in Seq(Call) /\ Depth \in Nat /\ \A n \in 1..Depth : calls[n] \in Call
    BY TopFacts, ElementOfSeq DEF IInv, Depth
  <1>2. \A n \in 1..Depth : [calls[n] EXCEPT !.quiet = FALSE] \in Call
    BY <1>1 DEF Call
  <1>3. /\ s \in Seq(Call) /\ Len(s) = Depth
        /\ \A n \in 1..Depth : s[n] = [calls[n] EXCEPT !.quiet = FALSE]
    BY <1>1, <1>2, SeqDef, LenProperties DEF Disturbed, Depth
  <1> HIDE DEF s
  <1>4. ASSUME NEW n \in 1..Depth, NEW buffer, NEW intact
        PROVE  GoodCall(s[n], return_flag, buffer, intact)
    BY <1>1, <1>3, DisturbedCall DEF IInv, CallsGood
  <1>5. QED
    BY <1>3, <1>4 DEF s

\* The calls after Enter.
LEMMA AnsweredFacts ==
    ASSUME IInv
    PROVE  LET s == Answered(calls)
           IN  /\ s \in Seq(Call) /\ Len(s) = Depth
               /\ \A n \in 1..Depth : s[n].covered = (n # Depth)
               /\ \A n \in 1..Depth : \A flag, buffer, intact :
                     GoodCall(s[n], flag, buffer, intact)
  <1> DEFINE s == Answered(calls)
  <1>1. calls \in Seq(Call) /\ Depth \in Nat /\ \A n \in 1..Depth : calls[n] \in Call
    BY TopFacts, ElementOfSeq DEF IInv, Depth
  <1>2. \A n \in 1..Depth : AnsweredOf(calls[n], n # Depth) \in Call
    BY <1>1 DEF Call, AnsweredOf
  <1>3. /\ s \in Seq(Call) /\ Len(s) = Depth
        /\ \A n \in 1..Depth : s[n] = AnsweredOf(calls[n], n # Depth)
    <2>1. s = [n \in 1..Depth |-> AnsweredOf(calls[n], n # Depth)]
      BY Zenon DEF Answered, Depth, AnsweredOf
    <2> HIDE DEF s
    <2>2. QED
      BY <1>1, <1>2, <2>1, SeqDef, LenProperties
  <1> HIDE DEF s
  <1>4. ASSUME NEW n \in 1..Depth, NEW flag, NEW buffer, NEW intact
        PROVE  GoodCall(s[n], flag, buffer, intact)
    <2>1. GoodCall(calls[n], return_flag, Shown, entered.intact)
      BY DEF IInv, CallsGood
    <2>2. QED
      BY <1>1, <1>3, <2>1, AnsweredCall
  <1>5. \A n \in 1..Depth : AnsweredOf(calls[n], n # Depth).covered = (n # Depth)
    BY <1>1 DEF AnsweredOf, Call
  <1>6. QED
    BY <1>3, <1>4, <1>5 DEF s

\* A piece of a buffer.
LEMMA TypedFacts ==
    ASSUME TypeOK, NEW t \in Terminals, NEW n \in 0..KEYBOARD_NUM_KEYS
    PROVE  /\ Typed(t, n) \in Seq(AnyKey) /\ Len(Typed(t, n)) = n
           /\ \A k \in 1..n : Typed(t, n)[k] = buffer_key[t][k - 1]
  <1>1. n \in Nat /\ \A k \in 1..n : k - 1 \in Cells
    BY BoundsAssumption DEF Cells
  <1>2. \A k \in 1..n : buffer_key[t][k - 1] \in AnyKey
    BY <1>1 DEF TypeOK, AnyKey
  <1>3. QED
    BY <1>1, <1>2, SeqDef, LenProperties DEF Typed

-----------------------------------------------------------------------------
(* The invariant.                                                           *)

\* The initial state.
LEMMA InitIInv == Init => IInv
  <1> SUFFICES ASSUME Init PROVE IInv
    OBVIOUS
  <1>1. calls \in Seq(Call) /\ Depth = 1 /\ calls[1] = InProgram
    BY InProgramFacts DEF Init, Depth
  <1>2. TypeOK
    <2>1. 0 \in Terminals /\ 0 \in 0..KEYBOARD_NUM_KEYS /\ 1 \in 1..MAX_PROCESSES
      BY BoundsAssumption DEF Terminals
    <2>2. entered \in [line : Seq(AnyKey), intact : BOOLEAN]
      BY EmptySeq DEF Init
    <2>3. QED
      BY <1>1, <2>1, <2>2 DEF Init, TypeOK, AnyKey
  <1>3. LineInBuffer(Shown, entered)
    BY DEF Init, LineInBuffer
  <1>4. CallsGood
    BY <1>1, InProgramFacts DEF CallsGood
  <1>5. QED
    BY <1>2, <1>3, <1>4 DEF IInv

\* A step of the running program's call that leaves the buffers alone.
LEMMA TopStepKeepsIInv ==
    ASSUME IInv, NEW c \in Call, SetTop(c),
           GoodCall(c, return_flag', Shown, entered.intact),
           return_flag' \in {0, return_flag},
           UNCHANGED <<buffer_key, buffer_index, saved_index, cur_term_id,
                       is_in_use_flag, entered>>
    PROVE  IInv'
  <1>1. calls \in Seq(Call) /\ Depth \in Nat /\ Depth \in 1..Depth /\ Depth \in 1..MAX_PROCESSES
    BY TopFacts DEF IInv, TypeOK
  <1>2. calls' = [calls EXCEPT ![Depth] = c]
    BY DEF SetTop, ReplaceAt
  <1>3. /\ calls' \in Seq(Call) /\ Depth' = Depth
        /\ \A n \in 1..Depth : calls'[n] = IF n = Depth THEN c ELSE calls[n]
    BY <1>1, <1>2, ExceptSeq DEF Depth
  <1>4. TypeOK'
    BY <1>1, <1>3 DEF IInv, TypeOK
  <1>5. Shown' = Shown /\ LineInBuffer(Shown', entered')
    BY DEF Shown, IInv
  <1>6. ASSUME NEW n \in 1..Depth
        PROVE  GoodCall(calls'[n], return_flag', Shown, entered.intact)
    <2>1. GoodCall(calls[n], return_flag, Shown, entered.intact)
      BY DEF IInv, CallsGood
    <2>2. GoodCall(calls[n], return_flag', Shown, entered.intact)
      BY <2>1 DEF GoodCall
    <2>3. QED
      BY <1>3, <2>2
  <1>7. CallsGood'
    BY <1>3, <1>5, <1>6 DEF CallsGood
  <1>8. QED
    BY <1>4, <1>5, <1>7 DEF IInv

\* A step after which no copy relies on the buffer.
LEMMA KeyKeepsIInv ==
    ASSUME IInv, TypeOK', LineInBuffer(Shown', entered'),
           \A n \in 1..Depth' : \A buffer, intact :
              GoodCall(calls'[n], return_flag', buffer, intact)
    PROVE  IInv'
  BY DEF IInv, CallsGood

\* The calls of a step that starts or ends a program.
LEMMA StackKeepsIInv ==
    ASSUME IInv, calls' \in Seq(Call), Depth' \in 1..MAX_PROCESSES,
           \A n \in 1..Depth' :
              \/ /\ n \in 1..Depth
                 /\ \A flag, buffer, intact :
                       GoodCall(calls[n], flag, buffer, intact) =>
                          GoodCall(calls'[n], flag, buffer, intact)
              \/ calls'[n] = InProgram,
           UNCHANGED <<buffer_key, buffer_index, saved_index, return_flag, cur_term_id,
                       is_in_use_flag, entered>>
    PROVE  IInv'
  <1>1. TypeOK'
    BY DEF IInv, TypeOK
  <1>2. Shown' = Shown /\ LineInBuffer(Shown', entered')
    BY DEF Shown, IInv
  <1>3. CallsGood'
    <2>1. \A n \in 1..Depth' : GoodCall(calls'[n], return_flag, Shown, entered.intact)
      BY InProgramFacts DEF IInv, CallsGood
    <2>2. QED
      BY <1>2, <2>1 DEF CallsGood
  <1>4. QED
    BY <1>1, <1>2, <1>3 DEF IInv

\* The program on top ends.
LEMMA WithoutTopFacts ==
    ASSUME TypeOK
    PROVE  LET s == WithoutTop(calls)
           IN  /\ s \in Seq(Call) /\ Len(s) \in 1..MAX_PROCESSES
               /\ \A n \in 1..Len(s) : \/ n \in 1..Depth /\ s[n] = calls[n]
                                       \/ s[n] = InProgram
  <1>1. calls \in Seq(Call) /\ Depth \in Nat /\ Depth \in 1..MAX_PROCESSES
    BY TopFacts DEF TypeOK
  <1>2. CASE Depth > 1
    <2>1. WithoutTop(calls) = SubSeq(calls, 1, Depth - 1)
      BY <1>2 DEF WithoutTop, Front, Depth
    <2>2. \A n \in 1..(Depth - 1) : calls[n] \in Call
      BY <1>1, ElementOfSeq DEF Depth
    <2>3. /\ SubSeq(calls, 1, Depth - 1) \in Seq(Call)
          /\ Len(SubSeq(calls, 1, Depth - 1)) = Depth - 1
          /\ \A n \in 1..(Depth - 1) : SubSeq(calls, 1, Depth - 1)[n] = calls[n]
      BY <1>1, <1>2, <2>2, SubSeqProperties
    <2>4. QED
      BY <1>1, <1>2, <2>1, <2>3, BoundsAssumption
  <1>3. CASE ~(Depth > 1)
    <2>1. WithoutTop(calls) = <<InProgram>>
      BY <1>3 DEF WithoutTop, Depth
    <2>2. <<InProgram>> \in Seq(Call) /\ Len(<<InProgram>>) = 1 /\ <<InProgram>>[1] = InProgram
      BY InProgramFacts
    <2>3. QED
      BY <2>1, <2>2, BoundsAssumption
  <1>4. QED
    BY <1>2, <1>3

\* A call that is covered by another program relies on what it relied on.
LEMMA CoveredCall ==
    ASSUME NEW c \in Call
    PROVE  /\ [c EXCEPT !.covered = TRUE] \in Call
           /\ [c EXCEPT !.covered = TRUE].covered
           /\ \A flag, buffer, intact :
                 GoodCall(c, flag, buffer, intact) =>
                    GoodCall([c EXCEPT !.covered = TRUE], flag, buffer, intact)
  <1> DEFINE d == [c EXCEPT !.covered = TRUE]
  <1>1. /\ d \in Call /\ d.quiet = c.quiet /\ d.covered
        /\ d.at = c.at /\ d.i = c.i /\ d.got = c.got /\ d.nbytes = c.nbytes
        /\ d.answered = c.answered
    BY DEF Call
  <1> HIDE DEF d
  <1>2. \A flag, buffer, intact :
           GoodCall(c, flag, buffer, intact) => GoodCall(d, flag, buffer, intact)
    BY <1>1 DEF GoodCall
  <1>3. QED
    BY <1>1, <1>2 DEF d

\* A program is started on top.
LEMMA NewTopFacts ==
    ASSUME NEW s \in Seq(Call), Len(s) \in Nat
    PROVE  LET t == WithNewTop(s)
           IN  /\ t \in Seq(Call) /\ Len(t) = Len(s) + 1
               /\ \A n \in 1..Len(s) :
                     /\ t[n].covered
                     /\ \A flag, buffer, intact :
                           GoodCall(s[n], flag, buffer, intact) =>
                              GoodCall(t[n], flag, buffer, intact)
               /\ t[Len(s) + 1] = InProgram
  <1> DEFINE u == [n \in 1..Len(s) |-> [s[n] EXCEPT !.covered = TRUE]]
             t == Append(u, InProgram)
  <1>1. \A n \in 1..Len(s) : s[n] \in Call
    BY ElementOfSeq
  <1>2. u \in Seq(Call) /\ Len(u) = Len(s)
    <2>1. \A n \in 1..Len(s) : [s[n] EXCEPT !.covered = TRUE] \in Call
      BY <1>1, CoveredCall
    <2>2. u \in [1..Len(s) -> Call]
      BY <2>1
    <2>3. u \in Seq(Call) /\ DOMAIN u = 1..Len(s)
      BY <2>2, SeqDef
    <2> HIDE DEF u
    <2>4. QED
      BY <2>3, LenProperties
  <1>3. \A n \in 1..Len(s) : u[n] = [s[n] EXCEPT !.covered = TRUE]
    OBVIOUS
  <1> HIDE DEF u
  <1>4. /\ t \in Seq(Call) /\ Len(t) = Len(s) + 1
        /\ \A n \in 1..Len(s) : t[n] = u[n]
        /\ t[Len(s) + 1] = InProgram
    BY <1>2, InProgramFacts, AppendProperties
  <1>5. WithNewTop(s) = t
    BY DEF WithNewTop, u
  <1> HIDE DEF t
  <1>6. \A n \in 1..Len(s) : t[n] = [s[n] EXCEPT !.covered = TRUE]
    BY <1>3, <1>4
  <1>7. \A n \in 1..Len(s) :
           /\ t[n].covered
           /\ \A flag, buffer, intact :
                 GoodCall(s[n], flag, buffer, intact) => GoodCall(t[n], flag, buffer, intact)
    <2> SUFFICES ASSUME NEW n \in 1..Len(s)
                 PROVE  /\ t[n].covered
                        /\ \A flag, buffer, intact :
                              GoodCall(s[n], flag, buffer, intact) =>
                                 GoodCall(t[n], flag, buffer, intact)
      OBVIOUS
    <2> DEFINE c == s[n]
               d == [c EXCEPT !.covered = TRUE]
    <2>1. c \in Call /\ t[n] = d
      BY <1>1, <1>6
    <2>2. /\ d.covered
          /\ \A flag, buffer, intact :
                GoodCall(c, flag, buffer, intact) => GoodCall(d, flag, buffer, intact)
      BY <2>1, CoveredCall
    <2> HIDE DEF d
    <2>3. QED
      BY <2>1, <2>2
  <1>8. QED
    BY <1>4, <1>5, <1>7

TouchedType == [line : Seq(AnyKey), intact : BOOLEAN]

\* A key that only disturbs.
LEMMA TouchKeepsIInv ==
    ASSUME IInv, calls' = Disturbed(calls), entered' = Touched,
           buffer_key' \in [Terminals -> [Cells -> AnyKey]],
           buffer_index' \in 0..KEYBOARD_NUM_KEYS,
           saved_index' \in [Terminals -> 0..KEYBOARD_NUM_KEYS],
           cur_term_id' \in Terminals,
           UNCHANGED <<return_flag, is_in_use_flag>>
    PROVE  IInv'
  <1>1. /\ calls' \in Seq(Call) /\ Depth' = Depth
        /\ \A n \in 1..Depth : \A buffer, intact :
              GoodCall(calls'[n], return_flag', buffer, intact)
    BY DisturbedFacts DEF Depth
  <1>2. entered' \in TouchedType /\ entered'.intact = FALSE
    BY EmptySeq DEF Touched, TouchedType
  <1>3. TypeOK'
    BY <1>1, <1>2 DEF IInv, TypeOK, AnyKey, TouchedType
  <1>4. LineInBuffer(Shown', entered')
    BY <1>2 DEF LineInBuffer
  <1>5. QED
    BY <1>1, <1>3, <1>4, KeyKeepsIInv

LEMMA PressKeyKeepsIInv == ASSUME IInv, NEW key \in Keys, PressKey(key) PROVE IInv'
  <1>1. cur_term_id \in Terminals /\ buffer_index \in Cells
    BY BoundsAssumption DEF IInv, TypeOK, PressKey, HasRoom, Cells
  <1>2. buffer_key' \in [Terminals -> [Cells -> AnyKey]]
    <2>1. buffer_key \in [Terminals -> [Cells -> AnyKey]] /\ key \in AnyKey
      BY DEF IInv, TypeOK, AnyKey
    <2>2. buffer_key' = [buffer_key EXCEPT ![cur_term_id][buffer_index] = key]
      BY DEF PressKey
    <2>3. QED
      BY <1>1, <2>1, <2>2
  <1>3. buffer_index' \in 0..KEYBOARD_NUM_KEYS
    BY <1>1, BoundsAssumption DEF PressKey, Cells
  <1>4. QED
    BY <1>2, <1>3, TouchKeepsIInv DEF PressKey, IInv, TypeOK

LEMMA BackspaceKeepsIInv == ASSUME IInv, Backspace PROVE IInv'
  <1>1. cur_term_id \in Terminals /\ buffer_index - 1 \in Cells
    BY BoundsAssumption DEF IInv, TypeOK, Backspace, Cells
  <1>2. buffer_key' \in [Terminals -> [Cells -> AnyKey]]
    <2>1. buffer_key \in [Terminals -> [Cells -> AnyKey]] /\ KEY_NULL \in AnyKey
      BY DEF IInv, TypeOK, AnyKey
    <2>2. buffer_key' = [buffer_key EXCEPT ![cur_term_id][buffer_index - 1] = KEY_NULL]
      BY DEF Backspace
    <2>3. QED
      BY <1>1, <2>1, <2>2
  <1>3. buffer_index' \in 0..KEYBOARD_NUM_KEYS
    BY <1>1, BoundsAssumption DEF Backspace, Cells
  <1>4. QED
    BY <1>2, <1>3, TouchKeepsIInv DEF Backspace, IInv, TypeOK

\* Another terminal is shown.
LEMMA ShowFacts ==
    ASSUME TypeOK, NEW t \in Terminals, Show(t)
    PROVE  /\ buffer_index' \in 0..KEYBOARD_NUM_KEYS
           /\ saved_index' \in [Terminals -> 0..KEYBOARD_NUM_KEYS]
           /\ cur_term_id' \in Terminals
           /\ entered' = Touched
           /\ UNCHANGED <<buffer_key, return_flag>>
  BY DEF TypeOK, Show, RestoredIndex

LEMMA ChangeKeepsIInv == ASSUME IInv, NEW t \in Terminals, ChangeTerminal(t) PROVE IInv'
  <1>1. TypeOK /\ Show(t) /\ calls' = Disturbed(calls) /\ UNCHANGED is_in_use_flag
    BY DEF IInv, ChangeTerminal
  <1>2. buffer_key' \in [Terminals -> [Cells -> AnyKey]]
    BY <1>1, ShowFacts DEF TypeOK, AnyKey
  <1>3. QED
    BY <1>1, <1>2, ShowFacts, TouchKeepsIInv

LEMMA LaunchKeepsIInv == ASSUME IInv, NEW t \in Terminals, LaunchTerminal(t) PROVE IInv'
  <1> DEFINE s == Disturbed(calls)
  <1>1. TypeOK /\ Show(t) /\ Depth \in Nat /\ Depth \in 1..MAX_PROCESSES
    BY TopFacts DEF IInv, LaunchTerminal, TypeOK
  <1>2. /\ s \in Seq(Call) /\ Len(s) = Depth
        /\ \A n \in 1..Depth : \A buffer, intact : GoodCall(s[n], return_flag, buffer, intact)
    BY DisturbedFacts
  <1>3. calls' = IF Depth < MAX_PROCESSES THEN WithNewTop(s) ELSE s
    BY DEF LaunchTerminal
  <1> HIDE DEF s
  <1>4. /\ calls' \in Seq(Call) /\ Depth' \in 1..MAX_PROCESSES
        /\ \A n \in 1..Depth' : \A buffer, intact :
              GoodCall(calls'[n], return_flag, buffer, intact)
    <2>1. CASE Depth < MAX_PROCESSES
      <3>1. /\ calls' \in Seq(Call) /\ Depth' = Depth + 1
            /\ \A n \in 1..Depth : \A buffer, intact :
                  GoodCall(calls'[n], return_flag, buffer, intact)
            /\ calls'[Depth + 1] = InProgram
        BY <1>1, <1>2, <1>3, <2>1, NewTopFacts DEF Depth
      <3>2. \A n \in 1..(Depth + 1) : n \in 1..Depth \/ n = Depth + 1
        BY <1>1
      <3>3. \A n \in 1..Depth' : \A buffer, intact :
               GoodCall(calls'[n], return_flag, buffer, intact)
        BY <1>2, <3>1, <3>2, InProgramFacts
      <3>4. QED
        BY <1>1, <2>1, <3>1, <3>3, BoundsAssumption
    <2>2. CASE ~(Depth < MAX_PROCESSES)
      <3>1. calls' = s /\ Depth' = Depth
        BY <1>2, <1>3, <2>2 DEF Depth
      <3>2. QED
        BY <1>1, <1>2, <3>1
    <2>3. QED
      BY <2>1, <2>2
  <1>5. entered' \in TouchedType /\ entered'.intact = FALSE
    <2>1. entered' = Touched
      BY <1>1, ShowFacts
    <2>2. QED
      BY <2>1, EmptySeq DEF Touched, TouchedType
  <1>6. is_in_use_flag' \in [Terminals -> BOOLEAN]
    BY <1>1 DEF LaunchTerminal, TypeOK
  <1>7. TypeOK'
    BY <1>1, <1>4, <1>5, <1>6, ShowFacts DEF TypeOK, AnyKey, TouchedType
  <1>8. LineInBuffer(Shown', entered')
    BY <1>5 DEF LineInBuffer
  <1>9. QED
    BY <1>1, <1>4, <1>7, <1>8, ShowFacts, KeyKeepsIInv

\* Enter ends the line in the buffer.
LEMMA EnterKeepsIInv == ASSUME IInv, Enter PROVE IInv'
  <1> DEFINE t == cur_term_id
             n == buffer_index
  <1>1. /\ TypeOK /\ t \in Terminals /\ n \in 0..KEYBOARD_NUM_KEYS
        /\ buffer_key \in [Terminals -> [Cells -> AnyKey]] /\ KEY_NULL \in AnyKey
        /\ KEYBOARD_NUM_KEYS \in Nat
    BY BoundsAssumption DEF IInv, TypeOK, AnyKey
  <1>2. /\ calls' \in Seq(Call) /\ Depth' = Depth
        /\ \A m \in 1..Depth : \A buffer, intact :
              GoodCall(calls'[m], return_flag', buffer, intact)
    BY AnsweredFacts DEF Enter, Depth
  <1>3. /\ entered'.intact = TRUE /\ entered'.line = Typed(t, n)
        /\ entered' \in TouchedType
        /\ Len(entered'.line) = n
        /\ \A k \in 1..n : entered'.line[k] = buffer_key[t][k - 1]
    BY <1>1, TypedFacts DEF Enter, TouchedType
  <1>4. /\ buffer_key' \in [Terminals -> [Cells -> AnyKey]]
        /\ \A k \in 1..n : buffer_key'[t][k - 1] = buffer_key[t][k - 1]
        /\ n < KEYBOARD_NUM_KEYS => buffer_key'[t][n] = KEY_NULL
    <2>1. CASE HasRoom
      <3>1. n \in Cells /\ buffer_key' = [buffer_key EXCEPT ![t][n] = KEY_NULL]
        BY <1>1, <2>1 DEF Enter, TerminatedBuffers, HasRoom, Cells
      <3>2. \A k \in 1..n : k - 1 # n /\ k - 1 \in Cells
        BY <1>1, <2>1 DEF HasRoom, Cells
      <3>3. QED
        BY <1>1, <3>1, <3>2
    <2>2. CASE ~HasRoom
      <3>1. n = KEYBOARD_NUM_KEYS /\ 0 \in Cells
        BY <1>1, <2>2, BoundsAssumption DEF HasRoom, Cells
      <3>2. \/ buffer_key' = buffer_key
            \/ \E u \in Terminals : u # t /\ buffer_key' = [buffer_key EXCEPT ![u][0] = KEY_NULL]
        BY <1>1, <2>2 DEF Enter, TerminatedBuffers, Terminals
      <3>3. QED
        BY <1>1, <3>1, <3>2
    <2>3. QED
      BY <2>1, <2>2
  <1>5. t' = t /\ return_flag' = 1 /\ buffer_index' = 0
        /\ UNCHANGED <<saved_index, is_in_use_flag>>
    BY DEF Enter
  <1>6. LineInBuffer(Shown', entered')
    BY <1>1, <1>3, <1>4, <1>5 DEF LineInBuffer, Shown
  <1>7. TypeOK'
    BY <1>1, <1>2, <1>3, <1>4, <1>5 DEF TypeOK, AnyKey, TouchedType
  <1>8. QED
    BY <1>2, <1>6, <1>7, KeyKeepsIInv

LEMMA CtrlLKeepsIInv == ASSUME IInv, CtrlL PROVE IInv'
  <1>1. /\ buffer_index' = 0
        /\ UNCHANGED <<buffer_key, saved_index, return_flag, cur_term_id, is_in_use_flag,
                       calls, entered>>
    BY DEF CtrlL
  <1>2. TypeOK'
    BY <1>1, BoundsAssumption DEF IInv, TypeOK, Depth
  <1>3. Shown' = Shown /\ Depth' = Depth
    BY <1>1 DEF Shown, Depth
  <1>4. QED
    BY <1>1, <1>2, <1>3 DEF IInv, CallsGood

\* The running call is good.
LEMMA TopGood ==
    ASSUME IInv
    PROVE  /\ Top \in Call
           /\ GoodCall(Top, return_flag, Shown, entered.intact)
           /\ Top.i \in 0..KEYBOARD_NUM_KEYS /\ Top.nbytes \in Int
           /\ Top.got \in Seq(AnyKey) /\ Len(Top.got) \in Nat
  <1>1. Top \in Call /\ Depth \in 1..Depth
    BY TopFacts DEF IInv
  <1>2. GoodCall(Top, return_flag, Shown, entered.intact)
    BY <1>1 DEF IInv, CallsGood, Top
  <1>3. Top.got \in Seq(AnyKey) /\ Top.nbytes \in Int
    BY <1>1 DEF Call, AnyKey
  <1>4. Top.i \in 0..KEYBOARD_NUM_KEYS
    BY <1>1, BoundsAssumption DEF Call, Cells
  <1>5. QED
    BY <1>1, <1>2, <1>3, <1>4, LenProperties

LEMMA ReadBeginsKeepsIInv == ASSUME IInv, NEW n \in ReadSizes, ReadBegins(n) PROVE IInv'
  <1> DEFINE c == [InProgram EXCEPT !.at = "spin", !.nbytes = n]
  <1>1. c \in Call
    BY InProgramFacts, KeysAssumption DEF Call
  <1>2. /\ c.at = "spin" /\ c.i = 0 /\ c.got = <<>> /\ c.quiet = FALSE
    BY DEF InProgram
  <1>3. SetTop(c) /\ return_flag' = 0
    BY DEF ReadBegins, ResetFlag
  <1> HIDE DEF c
  <1>4. GoodCall(c, return_flag', Shown, entered.intact)
    BY <1>2, <1>3 DEF GoodCall
  <1>5. QED
    BY <1>1, <1>3, <1>4, TopStepKeepsIInv DEF ReadBegins

LEMMA ReadSeesKeepsIInv == ASSUME IInv, ReadSees PROVE IInv'
  <1> DEFINE c == [Top EXCEPT !.at = "copy", !.quiet = entered.intact]
  <1>1. /\ Top \in Call /\ Top.at = "spin" /\ Top.i = 0 /\ Top.got = <<>>
        /\ entered.intact \in BOOLEAN
    BY TopGood DEF ReadSees, GoodCall, IInv, TypeOK
  <1>2. /\ c \in Call
        /\ c.at = "copy" /\ c.i = 0 /\ c.got = <<>> /\ c.quiet = entered.intact
    BY <1>1 DEF Call
  <1>3. SetTop(c) /\ ReadUnchanged
    BY DEF ReadSees
  <1> HIDE DEF c
  <1>4. GoodCall(c, return_flag, Shown, entered.intact)
    BY <1>2, EmptySeq DEF GoodCall
  <1>5. QED
    BY <1>2, <1>3, <1>4, TopStepKeepsIInv DEF ReadUnchanged

LEMMA CopyCharKeepsIInv == ASSUME IInv, CopyChar PROVE IInv'
  <1> DEFINE i == Top.i
             old == Top.got
             got == Append(SubSeq(old, 1, i), CharNow)
             c == [Top EXCEPT !.at = "check", !.got = got]
  <1>1. /\ Top \in Call /\ Top.at = "copy" /\ old \in Seq(AnyKey) /\ Len(old) = i
        /\ Top.nbytes \in Int /\ i \in Nat /\ i < KEYBOARD_NUM_KEYS /\ i < Top.nbytes
        /\ GoodCall(Top, return_flag, Shown, entered.intact)
    BY TopGood, BoundsAssumption DEF CopyChar, GoodCall, AtEnd, AtLimit
  <1>2. CharNow = Shown[i] /\ CharNow \in AnyKey
    BY <1>1, BoundsAssumption DEF CharNow, Shown, IInv, TypeOK, Cells, AnyKey
  <1>3. SubSeq(old, 1, i) = old
    BY <1>1, SubSeqFull
  <1> HIDE DEF i, old
  <1>4. /\ got \in Seq(AnyKey) /\ Len(got) = i + 1
        /\ \A k \in 1..i : got[k] = old[k]
        /\ got[i + 1] = CharNow
    BY <1>1, <1>2, <1>3, AppendProperties
  <1> HIDE DEF got
  <1>5. /\ c \in Call /\ c.at = "check" /\ c.got = got
        /\ c.i = i /\ c.nbytes = Top.nbytes /\ c.quiet = Top.quiet
    BY <1>1, <1>4 DEF Call, AnyKey, i
  <1>6. SetTop(c) /\ ReadUnchanged
    BY DEF CopyChar, got, old, i
  <1> HIDE DEF c
  <1>7. ASSUME Top.quiet
        PROVE  /\ entered.intact
               /\ \A k \in 1..(i + 1) : got[k] = Shown[k - 1]
               /\ \A k \in 1..i : got[k] # KEY_NULL
    <2>1. /\ entered.intact
          /\ \A k \in 1..i : old[k] = Shown[k - 1] /\ old[k] # KEY_NULL
      BY <1>1, <1>7 DEF GoodCall, old, i
    <2>2. \A k \in 1..(i + 1) : k \in 1..i \/ k = i + 1
      BY <1>1
    <2>3. QED
      BY <1>1, <1>2, <1>4, <2>1, <2>2
  <1>8. GoodCall(c, return_flag, Shown, entered.intact)
    BY <1>1, <1>4, <1>5, <1>7 DEF GoodCall
  <1>9. QED
    BY <1>5, <1>6, <1>8, TopStepKeepsIInv DEF ReadUnchanged

LEMMA NextCharKeepsIInv == ASSUME IInv, NextChar PROVE IInv'
  <1> DEFINE i == Top.i
             c == [Top EXCEPT !.at = "copy", !.i = i + 1]
  <1>1. /\ Top \in Call /\ Top.at = "check" /\ Len(Top.got) = i + 1
        /\ Top.nbytes \in Int /\ i \in Nat /\ i < KEYBOARD_NUM_KEYS /\ i < Top.nbytes
        /\ GoodCall(Top, return_flag, Shown, entered.intact)
        /\ Shown[i] # KEY_NULL
    BY TopGood, BoundsAssumption DEF NextChar, GoodCall, CharNow, Shown
  <1>2. i + 1 \in Cells \cup {KEYBOARD_NUM_KEYS}
    BY <1>1, BoundsAssumption DEF Cells
  <1>3. SetTop(c) /\ ReadUnchanged
    BY DEF NextChar, NextPosition
  <1> HIDE DEF i
  <1>4. /\ c \in Call /\ c.at = "copy" /\ c.got = Top.got
        /\ c.i = i + 1 /\ c.nbytes = Top.nbytes /\ c.quiet = Top.quiet
    BY <1>1, <1>2 DEF Call
  <1> HIDE DEF c
  <1>5. ASSUME Top.quiet
        PROVE  /\ entered.intact
               /\ \A k \in 1..(i + 1) : /\ Top.got[k] = Shown[k - 1]
                                        /\ Top.got[k] # KEY_NULL
    <2>1. /\ entered.intact
          /\ \A k \in 1..(i + 1) : Top.got[k] = Shown[k - 1]
          /\ \A k \in 1..i : Top.got[k] # KEY_NULL
      BY <1>1, <1>5 DEF GoodCall, i
    <2>2. \A k \in 1..(i + 1) : k \in 1..i \/ k = i + 1
      BY <1>1
    <2>3. i + 1 \in 1..(i + 1) /\ (i + 1) - 1 = i
      BY <1>1
    <2>4. QED
      BY <1>1, <2>1, <2>2, <2>3
  <1>6. GoodCall(c, return_flag, Shown, entered.intact)
    BY <1>1, <1>4, <1>5 DEF GoodCall
  <1>7. QED
    BY <1>3, <1>4, <1>6, TopStepKeepsIInv DEF ReadUnchanged

\* Every step keeps the invariant.
LEMMA NextKeepsIInv == IInv /\ [Next]_vars => IInv'
  <1> SUFFICES ASSUME IInv, [Next]_vars PROVE IInv'
    OBVIOUS
  <1>1. CASE Execute
    <2>1. calls \in Seq(Call) /\ Depth \in Nat
      BY TopFacts DEF IInv
    <2>2. /\ calls' \in Seq(Call) /\ Depth' = Depth + 1
          /\ \A n \in 1..Depth : \A flag, buffer, intact :
                GoodCall(calls[n], flag, buffer, intact) =>
                   GoodCall(calls'[n], flag, buffer, intact)
          /\ calls'[Depth + 1] = InProgram
      BY <1>1, <2>1, NewTopFacts DEF Execute, Depth
    <2>3. \A n \in 1..(Depth + 1) : n \in 1..Depth \/ n = Depth + 1
      BY <2>1
    <2>4. Depth' \in 1..MAX_PROCESSES
      BY <1>1, <2>1, <2>2, BoundsAssumption DEF Execute
    <2>5. QED
      BY <1>1, <2>2, <2>3, <2>4, StackKeepsIInv DEF Execute
  <1>2. CASE Halt \/ Kill
    <2>1. calls' = WithoutTop(calls) /\ TypeOK
      BY <1>2 DEF Halt, Kill, IInv
    <2>2. /\ calls' \in Seq(Call) /\ Depth' \in 1..MAX_PROCESSES
          /\ \A n \in 1..Depth' : \/ n \in 1..Depth /\ calls'[n] = calls[n]
                                  \/ calls'[n] = InProgram
      BY <2>1, WithoutTopFacts DEF Depth
    <2>3. QED
      BY <1>2, <2>2, StackKeepsIInv DEF Halt, Kill
  <1>3. CASE ReadReturns
    <2>1. SetTop(InProgram) /\ ReadUnchanged
      BY <1>3 DEF ReadReturns
    <2>2. QED
      BY <2>1, InProgramFacts, TopStepKeepsIInv DEF ReadUnchanged
  <1>4. CASE UNCHANGED vars
    BY <1>4 DEF vars, IInv, TypeOK, CallsGood, Depth, Shown
  <1>5. CASE Next
    BY <1>1, <1>2, <1>3, <1>5, PressKeyKeepsIInv, BackspaceKeepsIInv, EnterKeepsIInv,
       CtrlLKeepsIInv, ChangeKeepsIInv, LaunchKeepsIInv, ReadBeginsKeepsIInv,
       ReadSeesKeepsIInv, CopyCharKeepsIInv, NextCharKeepsIInv DEF Next
  <1>6. QED
    BY <1>4, <1>5

\* The invariant holds in every reachable state.
THEOREM Invariance == Spec => []IInv
  BY InitIInv, NextKeepsIInv, PTL DEF Spec

-----------------------------------------------------------------------------
(* The theorems.                                                            *)

\* Every variable stays in its type; the index never passes the buffer.
THEOREM TypeCorrect == Spec => []TypeOK
  <1>1. IInv => TypeOK
    BY DEF IInv
  <1>2. QED
    BY <1>1, Invariance, PTL

\* A read ends its wait only after an Enter pressed since it began.
\* (keyboard_read, press_enter)
THEOREM ReadsWaitForEnterCorrect == Spec => ReadsWaitForEnter
  <1>1. IInv /\ [Next]_vars => [ReadSees => Top.answered]_vars
    BY TopGood DEF GoodCall, ReadSees, IInv, TypeOK
  <1>2. QED
    BY <1>1, Invariance, PTL DEF Spec, ReadsWaitForEnter

\* How much of a terminal's buffer is its unfinished line.
LineLength(t) == IF t = cur_term_id THEN buffer_index ELSE saved_index[t]

\* Only Enter at the end of a full buffer can spoil the unfinished line of a terminal
\* that is not on the screen or is about to leave it.
\* (terminal_save, terminal_restore, press_enter)
THEOREM UnfinishedLinesKeptCorrect == Spec => UnfinishedLinesKept
  <1> DEFINE Kept == \A t \in Terminals :
                        (t # cur_term_id \/ cur_term_id' # cur_term_id)
                           => Line(t)' = Line(t) \/ EnterOverruns
  <1>1. TypeOK /\ [Next]_vars => [Kept]_vars
    <2> SUFFICES ASSUME TypeOK, Next, NEW t \in Terminals, ~EnterOverruns,
                        t # cur_term_id \/ cur_term_id' # cur_term_id
                 PROVE  Line(t)' = Line(t)
      OBVIOUS
    <2>1. ASSUME buffer_key'[t] = buffer_key[t], LineLength(t)' = LineLength(t)
          PROVE  Line(t)' = Line(t)
      BY <2>1, Zenon DEF Line, Typed, LineLength
    <2>2. ASSUME UNCHANGED <<buffer_key, saved_index, cur_term_id>>
          PROVE  Line(t)' = Line(t)
      BY <2>1, <2>2 DEF LineLength
    <2>3. ASSUME UNCHANGED <<saved_index, cur_term_id>>,
                 \E b : buffer_key' = [buffer_key EXCEPT ![cur_term_id] = b]
          PROVE  Line(t)' = Line(t)
      BY <2>1, <2>3 DEF LineLength, TypeOK
    <2>4. ASSUME NEW u \in Terminals, u # cur_term_id, Show(u)
          PROVE  Line(t)' = Line(t)
      BY <2>1, <2>4 DEF LineLength, TypeOK, Show, RestoredIndex
    <2>5. ASSUME NEW key \in Keys, PressKey(key)
          PROVE  Line(t)' = Line(t)
      BY <2>3, <2>5 DEF PressKey
    <2>6. CASE Backspace
      BY <2>3, <2>6 DEF Backspace
    <2>7. CASE Enter
      BY <2>3, <2>7 DEF Enter, TerminatedBuffers, EnterOverruns
    <2>8. CASE CtrlL \/ Execute \/ Halt \/ Kill \/ \E n \in ReadSizes : ReadBegins(n)
      BY <2>2, <2>8 DEF CtrlL, Execute, Halt, Kill, ReadBegins
    <2>9. CASE ReadSees \/ CopyChar \/ NextChar \/ ReadReturns
      BY <2>2, <2>9 DEF ReadSees, CopyChar, NextChar, ReadReturns, ReadUnchanged
    <2>10. ASSUME NEW u \in Terminals, ChangeTerminal(u) \/ LaunchTerminal(u)
           PROVE  Line(t)' = Line(t)
      BY <2>4, <2>10 DEF ChangeTerminal, LaunchTerminal
    <2>11. QED
      BY <2>5, <2>6, <2>7, <2>8, <2>9, <2>10 DEF Next
  <1>2. QED
    BY <1>1, TypeCorrect, PTL DEF Spec, UnfinishedLinesKept

\* The beginning of a line as a sequence.
LEMMA FirstOfFacts ==
    ASSUME NEW line \in Seq(AnyKey), NEW n \in Int, NEW m \in Nat,
           m = IF n < Len(line) THEN IF n < 0 THEN 0 ELSE n ELSE Len(line)
    PROVE  /\ FirstOf(line, n) \in Seq(AnyKey) /\ Len(FirstOf(line, n)) = m
           /\ \A k \in 1..m : FirstOf(line, n)[k] = line[k]
  <1> DEFINE l == IF n < Len(line) THEN n ELSE Len(line)
  <1>1. Len(line) \in Nat /\ l \in Int
    BY LenProperties
  <1>2. \A k \in 1..l : line[k] \in AnyKey
    BY <1>1, ElementOfSeq
  <1>3. FirstOf(line, n) = SubSeq(line, 1, l)
    BY DEF FirstOf
  <1>4. /\ SubSeq(line, 1, l) \in Seq(AnyKey)
        /\ Len(SubSeq(line, 1, l)) = IF 1 <= l THEN l - 1 + 1 ELSE 0
        /\ \A k \in 1..(l - 1 + 1) : SubSeq(line, 1, l)[k] = line[1 + k - 1]
    <2> HIDE DEF l
    <2>1. QED
      BY <1>1, <1>2, SubSeqProperties
  <1>5. m = IF 1 <= l THEN l ELSE 0
    BY <1>1
  <1> HIDE DEF l
  <1>6. QED
    BY <1>1, <1>3, <1>4, <1>5

\* The keys a copy has, if the null key at its end is the only one.
LEMMA KeysCopiedFacts ==
    ASSUME NEW got \in Seq(AnyKey), NEW n \in Nat,
           \A k \in 1..n : got[k] # KEY_NULL,
           \/ Len(got) = n
           \/ Len(got) = n + 1 /\ got[n + 1] = KEY_NULL
    PROVE  /\ KeysCopied(got) \in Seq(AnyKey) /\ Len(KeysCopied(got)) = n
           /\ \A k \in 1..n : KeysCopied(got)[k] = got[k]
  <1>1. CASE Len(got) = n
    <2>1. got # <<>> => n \in 1..n /\ Last(got) = got[n]
      BY <1>1, EmptySeq DEF Last
    <2>2. KeysCopied(got) = got
      BY <2>1 DEF KeysCopied
    <2>3. QED
      BY <1>1, <2>2
  <1>2. CASE Len(got) = n + 1 /\ got[n + 1] = KEY_NULL
    <2>1. got # <<>> /\ Last(got) = KEY_NULL
      BY <1>2, EmptySeq DEF Last
    <2>2. KeysCopied(got) = SubSeq(got, 1, n)
      BY <1>2, <2>1 DEF KeysCopied, Front
    <2>3. \A k \in 1..n : got[k] \in AnyKey
      BY <1>2, ElementOfSeq
    <2>4. QED
      BY <2>2, <2>3, SubSeqProperties
  <1>3. QED
    BY <1>1, <1>2

\* A read that no key disturbs from the Enter on gets the line that was entered, or as
\* much of it as it asked for, and returns how many keys that is unless it fills
\* the buffer.  (press_enter, press_bskp, keyboard_read)
THEOREM QuietReadGetsLineCorrect == Spec => QuietReadGetsLine
  <1> DEFINE line == FirstOf(entered.line, Top.nbytes)
             Right == /\ KeysCopied(Top.got) = line
                      /\ Len(line) < KEYBOARD_NUM_KEYS => ReturnValue = Len(line)
  <1>1. IInv /\ [Next]_vars => [ReadReturns /\ Top.quiet /\ ~LineSpoilt => Right]_vars
    <2> SUFFICES ASSUME IInv, ReadReturns, Top.quiet, ~LineSpoilt
                 PROVE  Right
      OBVIOUS
    <2> DEFINE i == Top.i
               n == Top.nbytes
               got == Top.got
               all == entered.line
    <2>1. /\ i \in 0..KEYBOARD_NUM_KEYS /\ n \in Int /\ KEYBOARD_NUM_KEYS \in Nat
          /\ got \in Seq(AnyKey) /\ all \in Seq(AnyKey) /\ Len(all) \in Nat
          /\ i \in Nat
      BY TopGood, BoundsAssumption, LenProperties DEF IInv, TypeOK, AnyKey
    <2>2. /\ Len(all) <= KEYBOARD_NUM_KEYS
          /\ \A k \in 1..Len(all) : Shown[k - 1] = all[k] /\ all[k] # KEY_NULL
          /\ Len(all) < KEYBOARD_NUM_KEYS => Shown[Len(all)] = KEY_NULL
      BY TopGood DEF IInv, LineInBuffer, GoodCall, LineSpoilt
    <2>3. /\ \A k \in 1..Len(got) : got[k] = Shown[k - 1]
          /\ \A k \in 1..i : got[k] # KEY_NULL
      BY TopGood DEF GoodCall
    <2>4. i <= Len(got) => i <= Len(all)
      <3> SUFFICES ASSUME i <= Len(got), Len(all) < i PROVE FALSE
        BY <2>1
      <3>1. Len(all) + 1 \in 1..i /\ Len(all) + 1 \in 1..Len(got) /\ Len(all) < KEYBOARD_NUM_KEYS
        BY <2>1, LenProperties
      <3>2. got[Len(all) + 1] = Shown[Len(all)] /\ got[Len(all) + 1] # KEY_NULL
        BY <2>1, <2>3, <3>1
      <3>3. QED
        BY <2>2, <3>1, <3>2
    <2>5. ASSUME i <= Len(all), Len(got) = i \/ (Len(got) = i + 1 /\ got[i + 1] = KEY_NULL),
                 i = IF n < Len(all) THEN IF n < 0 THEN 0 ELSE n ELSE Len(all),
                 i <= Len(got)
          PROVE  KeysCopied(got) = line /\ Len(line) = i
      <3> HIDE DEF i, n, got, all
      <3>1. /\ KeysCopied(got) \in Seq(AnyKey) /\ Len(KeysCopied(got)) = i
            /\ \A k \in 1..i : KeysCopied(got)[k] = got[k]
        BY <2>1, <2>3, <2>5, KeysCopiedFacts
      <3>2. /\ line \in Seq(AnyKey) /\ Len(line) = i
            /\ \A k \in 1..i : line[k] = all[k]
        BY <2>1, <2>5, FirstOfFacts DEF n, all
      <3>3. \A k \in 1..i : got[k] = all[k]
        BY <2>1, <2>2, <2>3, <2>5, LenProperties
      <3> HIDE DEF line
      <3>4. QED
        BY <3>1, <3>2, <3>3, SeqEqual
    <2>6. CASE NullKeySeen
      <3>1. i < KEYBOARD_NUM_KEYS /\ i < n /\ Len(got) = i + 1 /\ Shown[i] = KEY_NULL
        BY <2>6, TopGood DEF NullKeySeen, GoodCall, CharNow, Shown
      <3>2. i <= Len(all) /\ got[i + 1] = KEY_NULL
        BY <2>1, <2>3, <2>4, <3>1
      <3>3. i = Len(all)
        <4>1. ASSUME i < Len(all) PROVE FALSE
          <5>1. i + 1 \in 1..Len(all) /\ (i + 1) - 1 = i
            BY <2>1, <4>1
          <5>2. QED
            BY <2>2, <3>1, <5>1
        <4>2. QED
          BY <2>1, <3>2, <4>1
      <3>4. KeysCopied(got) = line /\ Len(line) = i
        BY <2>1, <2>5, <3>1, <3>2, <3>3
      <3>5. ReturnValue = i
        BY <2>6 DEF ReturnValue, BufferCopied, NullKeySeen
      <3>6. QED
        BY <3>1, <3>4, <3>5
    <2>7. CASE LimitReached
      <3>1. /\ i # KEYBOARD_NUM_KEYS /\ i >= n /\ Len(got) = i
            /\ i = 0 \/ i <= n
        BY <2>7, TopGood DEF LimitReached, GoodCall, AtEnd, AtLimit
      <3>2. i <= Len(all) /\ i = IF n < Len(all) THEN IF n < 0 THEN 0 ELSE n ELSE Len(all)
        BY <2>1, <2>4, <3>1
      <3>3. KeysCopied(got) = line /\ Len(line) = i
        BY <2>1, <2>5, <3>1, <3>2
      <3>4. ReturnValue = i
        BY <2>7 DEF ReturnValue, BufferCopied, LimitReached
      <3>5. QED
        BY <2>1, <3>1, <3>3, <3>4
    <2>8. CASE BufferCopied
      <3>1. i = KEYBOARD_NUM_KEYS /\ Len(got) = i /\ (i = 0 \/ i <= n)
        BY <2>8, TopGood DEF BufferCopied, GoodCall, AtEnd
      <3>2. i <= Len(all) /\ i = IF n < Len(all) THEN IF n < 0 THEN 0 ELSE n ELSE Len(all)
        BY <2>1, <2>2, <2>4, <3>1, BoundsAssumption
      <3>3. KeysCopied(got) = line /\ Len(line) = i
        BY <2>1, <2>5, <3>1, <3>2
      <3>4. QED
        BY <2>1, <3>1, <3>3
    <2>9. QED
      BY <2>6, <2>7, <2>8 DEF ReadReturns
  <1>2. QED
    BY <1>1, Invariance, PTL DEF Spec, QuietReadGetsLine

\* Every program but the one on top is covered, and a call that waits and is not has
\* the Enter that was pressed for it.
EnterInv ==
    \A n \in 1..Depth :
        /\ n # Depth => calls[n].covered
        /\ calls[n].at = "spin" /\ calls[n].answered /\ ~calls[n].covered => return_flag = 1

\* A step of the running program's call.
LEMMA TopStepKeepsEnter ==
    ASSUME TypeOK, EnterInv, NEW c \in Call, SetTop(c),
           c.at = "spin" => ~c.answered \/ c.covered
    PROVE  EnterInv'
  <1>1. calls \in Seq(Call) /\ Depth \in Nat /\ Depth \in 1..Depth
    BY TopFacts
  <1>2. calls' = [calls EXCEPT ![Depth] = c]
    BY DEF SetTop, ReplaceAt
  <1>3. /\ calls' \in Seq(Call) /\ Depth' = Depth
        /\ \A n \in 1..Depth : calls'[n] = IF n = Depth THEN c ELSE calls[n]
    BY <1>1, <1>2, ExceptSeq DEF Depth
  <1>4. QED
    BY <1>1, <1>3 DEF EnterInv

\* A key that only disturbs.
LEMMA DisturbKeepsEnter ==
    ASSUME IInv, EnterInv, calls' = Disturbed(calls), UNCHANGED return_flag
    PROVE  EnterInv'
  <1>1. \A n \in 1..Depth : calls[n] \in Call
    BY TopFacts, ElementOfSeq DEF IInv, Depth
  <1>2. \A n \in 1..Depth : calls'[n] = [calls[n] EXCEPT !.quiet = FALSE]
    BY DEF Disturbed, Depth
  <1>3. \A n \in 1..Depth : /\ calls'[n].at = calls[n].at
                            /\ calls'[n].answered = calls[n].answered
                            /\ calls'[n].covered = calls[n].covered
    BY <1>1, <1>2 DEF Call
  <1>4. Depth' = Depth
    BY DisturbedFacts DEF Depth
  <1>5. QED
    BY <1>3, <1>4 DEF EnterInv

\* A program starts on top.
LEMMA NewTopKeepsEnter ==
    ASSUME NEW s \in Seq(Call), calls' = WithNewTop(s)
    PROVE  EnterInv'
  <1>1. Len(s) \in Nat
    BY LenProperties
  <1>2. /\ Depth' = Len(s) + 1
        /\ \A n \in 1..Len(s) : calls'[n].covered
        /\ calls'[Len(s) + 1] = InProgram
    BY <1>1, NewTopFacts DEF Depth
  <1>3. \A n \in 1..(Len(s) + 1) : n \in 1..Len(s) \/ n = Len(s) + 1
    BY <1>1
  <1>4. InProgram.at = "user"
    BY DEF InProgram
  <1>5. QED
    BY <1>2, <1>3, <1>4 DEF EnterInv

\* The program on top ends: the one below is covered.
LEMMA WithoutTopKeepsEnter ==
    ASSUME TypeOK, EnterInv, calls' = WithoutTop(calls), UNCHANGED return_flag
    PROVE  EnterInv'
  <1>1. calls \in Seq(Call) /\ Depth \in Nat /\ Depth \in 1..Depth
    BY TopFacts
  <1>2. CASE Depth > 1
    <2>1. calls' = SubSeq(calls, 1, Depth - 1)
      BY <1>2 DEF WithoutTop, Front, Depth
    <2>2. \A n \in 1..(Depth - 1) : calls[n] \in Call
      BY <1>1, ElementOfSeq DEF Depth
    <2>3. Depth' = Depth - 1 /\ \A n \in 1..(Depth - 1) : calls'[n] = calls[n]
      BY <1>1, <1>2, <2>1, <2>2, SubSeqProperties DEF Depth
    <2>4. \A n \in 1..(Depth - 1) : n \in 1..Depth /\ n # Depth
      BY <1>1
    <2>5. QED
      BY <2>3, <2>4 DEF EnterInv
  <1>3. CASE ~(Depth > 1)
    <2>1. calls' = <<InProgram>> /\ Depth' = 1
      BY <1>3 DEF WithoutTop, Depth
    <2>2. calls'[1].at = "user"
      BY <2>1 DEF InProgram
    <2>3. QED
      BY <2>1, <2>2 DEF EnterInv
  <1>4. QED
    BY <1>2, <1>3

\* Every step keeps it.
LEMMA NextKeepsEnter == IInv /\ EnterInv /\ [Next]_vars => EnterInv'
  <1> SUFFICES ASSUME IInv, EnterInv, [Next]_vars PROVE EnterInv'
    OBVIOUS
  <1>1. TypeOK /\ Top \in Call /\ calls \in Seq(Call)
    BY TopFacts DEF IInv
  <1>2. ASSUME NEW key \in Keys, PressKey(key)
        PROVE  EnterInv'
    BY <1>2, DisturbKeepsEnter DEF PressKey
  <1>3. CASE Backspace
    BY <1>3, DisturbKeepsEnter DEF Backspace
  <1>4. CASE Enter
    <2>1. /\ Depth' = Depth /\ return_flag' = 1
          /\ \A n \in 1..Depth : calls'[n].covered = (n # Depth)
      BY <1>4, AnsweredFacts DEF Enter, Depth
    <2>2. QED
      BY <2>1 DEF EnterInv
  <1>5. CASE CtrlL \/ UNCHANGED vars
    BY <1>5 DEF CtrlL, vars, EnterInv, Depth
  <1>6. ASSUME NEW t \in Terminals, ChangeTerminal(t)
        PROVE  EnterInv'
    BY <1>6, DisturbKeepsEnter DEF ChangeTerminal, Show
  <1>7. ASSUME NEW t \in Terminals, LaunchTerminal(t)
        PROVE  EnterInv'
    <2>1. Disturbed(calls) \in Seq(Call)
      BY DisturbedFacts
    <2>2. \/ calls' = WithNewTop(Disturbed(calls))
          \/ calls' = Disturbed(calls) /\ UNCHANGED return_flag
      BY <1>7 DEF LaunchTerminal, Show
    <2>3. QED
      BY <2>1, <2>2, NewTopKeepsEnter, DisturbKeepsEnter
  <1>8. CASE Execute
    BY <1>1, <1>8, NewTopKeepsEnter DEF Execute
  <1>9. CASE Halt \/ Kill
    BY <1>1, <1>9, WithoutTopKeepsEnter DEF Halt, Kill
  <1>10. ASSUME NEW n \in ReadSizes, ReadBegins(n)
         PROVE  EnterInv'
    <2> DEFINE c == [InProgram EXCEPT !.at = "spin", !.nbytes = n]
    <2>1. c \in Call /\ ~c.answered
      BY KeysAssumption, InProgramFacts DEF InProgram, Call
    <2>2. SetTop(c)
      BY <1>10 DEF ReadBegins
    <2> HIDE DEF c
    <2>3. QED
      BY <1>1, <2>1, <2>2, TopStepKeepsEnter
  <1>11. ASSUME NEW c, c \in Call, c.at # "spin", SetTop(c)
         PROVE  EnterInv'
    BY <1>1, <1>11, TopStepKeepsEnter
  <1>12. CASE ReadReturns
    <2>1. InProgram \in Call /\ InProgram.at # "spin"
      BY InProgramFacts DEF InProgram
    <2>2. QED
      BY <1>11, <1>12, <2>1 DEF ReadReturns
  <1>13. CASE ReadSees
    <2>1. [Top EXCEPT !.at = "copy", !.quiet = entered.intact] \in Call
      BY <1>1 DEF Call, TypeOK
    <2>2. [Top EXCEPT !.at = "copy", !.quiet = entered.intact].at # "spin"
      BY <1>1 DEF Call
    <2>3. QED
      BY <1>11, <1>13, <2>1, <2>2 DEF ReadSees
  <1>14. CASE CopyChar
    <2> DEFINE got == Append(SubSeq(Top.got, 1, Top.i), CharNow)
               c == [Top EXCEPT !.at = "check", !.got = got]
    <2>1. /\ Top.at = "copy" /\ Top.i \in Nat /\ Top.i < KEYBOARD_NUM_KEYS
          /\ Top.got \in Seq(AnyKey) /\ Len(Top.got) = Top.i
      BY <1>14, TopGood, BoundsAssumption DEF CopyChar, GoodCall, AtEnd
    <2>2. CharNow \in AnyKey
      BY <2>1, BoundsAssumption DEF CharNow, IInv, TypeOK, Cells, AnyKey
    <2>3. got \in Seq(AnyKey)
      BY <2>1, <2>2, SubSeqFull, AppendProperties
    <2> HIDE DEF got
    <2>4. c \in Call /\ c.at # "spin"
      BY <1>1, <2>3 DEF Call, AnyKey
    <2>5. SetTop(c)
      BY <1>14 DEF CopyChar, got
    <2> HIDE DEF c
    <2>6. QED
      BY <1>11, <2>4, <2>5
  <1>15. CASE NextChar
    <2> DEFINE c == [Top EXCEPT !.at = "copy", !.i = Top.i + 1]
    <2>1. Top.i + 1 \in Cells \cup {KEYBOARD_NUM_KEYS}
      BY <1>15, TopGood, BoundsAssumption DEF NextChar, GoodCall, Cells
    <2>2. c \in Call /\ c.at # "spin"
      BY <1>1, <2>1 DEF Call
    <2>3. SetTop(c)
      BY <1>15 DEF NextChar, NextPosition
    <2> HIDE DEF c
    <2>4. QED
      BY <1>11, <2>2, <2>3
  <1>16. QED
    BY <1>2, <1>3, <1>4, <1>5, <1>6, <1>7, <1>8, <1>9, <1>10, <1>12, <1>13, <1>14, <1>15
    DEF Next

\* An Enter pressed while a program waits for it is there when the program looks, and
\* only a program started on top of it can have taken it.
\* (keyboard_read's reset of the flag, terminal_launch)
THEOREM EnterNotLostCorrect == Spec => []EnterNotLost
  <1>1. Init => EnterInv
    BY DEF Init, EnterInv, Depth, InProgram
  <1>2. EnterInv => EnterNotLost
    BY DEF EnterInv, EnterNotLost
  <1>3. QED
    BY <1>1, <1>2, Invariance, NextKeepsEnter, PTL DEF Spec
=============================================================================
