------------------------------ MODULE Keyboard ------------------------------
(***************************************************************************)
(* Lines typed at the keyboard: the buffers the keyboard handler fills,    *)
(* their saving and restoring when another terminal is shown, and          *)
(* keyboard_read (keyboard.c).                                             *)
(*                                                                         *)
(* The handler runs with interrupts disabled, so each key is one step;     *)
(* keyboard_read runs with interrupts enabled and keys come between any    *)
(* two of its loads.  Buffer, index and return_flag are shared by all      *)
(* programs: those on whose keyboard_read a key has launched a new shell   *)
(* still wait in it, below that shell, and go on when it has gone.         *)
(*                                                                         *)
(* calls[i].at is the place in the i-th nested program's system call:      *)
(*   "user"   in the program, or in any other system call                  *)
(*   "spin"   in keyboard_read, waiting for return_flag                    *)
(*   "copy"   at the top of its loop                                       *)
(*   "check"  character i copied, not yet compared with the null key       *)
(***************************************************************************)
EXTENDS Integers, Sequences, FiniteSets, SequencesExt

CONSTANTS
    KEYBOARD_NUM_KEYS,  \* characters a buffer holds
    NUM_TERM,           \* terminals
    MAX_PROCESSES,      \* slots of the process table
    Keys,               \* characters
    KEY_NULL,           \* the null key, which ends a line
    ReadSizes           \* values of nbytes programs pass

ASSUME BoundsAssumption ==
    /\ KEYBOARD_NUM_KEYS \in Nat \ {0}
    /\ NUM_TERM \in Nat \ {0}
    /\ MAX_PROCESSES \in Nat \ {0}

ASSUME KeysAssumption == KEY_NULL \notin Keys /\ ReadSizes \subseteq Int

VARIABLES
    buffer_key,     \* terminal -> the characters typed there
    buffer_index,   \* where the next character goes on the screen's terminal
    saved_index,    \* terminal -> its buffer_index when it was last shown
    return_flag,    \* has Enter been pressed
    cur_term_id,    \* the terminal on the screen
    is_in_use_flag, \* terminal -> has a shell been launched on it
    calls,          \* the nested programs' system calls
    entered         \* history: the last line entered, and is it still intact

vars == <<buffer_key, buffer_index, saved_index, return_flag, cur_term_id,
          is_in_use_flag, calls, entered>>

Terminals == 0..(NUM_TERM - 1)

Cells == 0..(KEYBOARD_NUM_KEYS - 1)

\* got is what has been copied to the program.  quiet is history: the copy
\* began with the last line entered intact, and no key has come since.  answered
\* and covered are history: has Enter been pressed since the call began, and has
\* another program been on top since the last Enter.
Call == [at : {"user", "spin", "copy", "check"}, i : Cells \cup {KEYBOARD_NUM_KEYS},
         nbytes : Int, got : Seq(Keys \cup {KEY_NULL}), quiet : BOOLEAN,
         answered : BOOLEAN, covered : BOOLEAN]

InProgram == [at |-> "user", i |-> 0, nbytes |-> 0, got |-> <<>>, quiet |-> FALSE,
              answered |-> FALSE, covered |-> FALSE]

Depth == Len(calls)

Top == calls[Depth]

SetTop(call) == calls' = ReplaceAt(calls, Depth, call)

\* The program on top ends; the last one is replaced by a new shell.
WithoutTop(stack) == IF Len(stack) > 1 THEN Front(stack) ELSE <<InProgram>>

\* History: a key disturbs every copy in progress.
Disturbed(stack) == [n \in 1..Len(stack) |-> [stack[n] EXCEPT !.quiet = FALSE]]

\* History: Enter answers every read in progress.
Answered(stack) ==
    [n \in 1..Len(stack) |->
        [stack[n] EXCEPT !.quiet = FALSE, !.answered = TRUE, !.covered = (n # Len(stack))]]

\* A program starts on top of the others.
WithNewTop(stack) ==
    Append([n \in 1..Len(stack) |-> [stack[n] EXCEPT !.covered = TRUE]], InProgram)

Touched == [line |-> <<>>, intact |-> FALSE]

\* The first n characters of a terminal's buffer.
Typed(t, n) == [i \in 1..n |-> buffer_key[t][i - 1]]

-----------------------------------------------------------------------------
(* Keys.                                                                    *)

Init ==
    /\ buffer_key = [t \in Terminals |-> [i \in Cells |-> KEY_NULL]]
    /\ buffer_index = 0
    /\ saved_index = [t \in Terminals |-> 0]
    /\ return_flag = 0
    /\ cur_term_id = 0
    /\ is_in_use_flag = [t \in Terminals |-> t = 0]
    /\ calls = <<InProgram>>
    /\ entered = [line |-> <<>>, intact |-> FALSE]

RoomForOneMore == buffer_index # KEYBOARD_NUM_KEYS + 1

HasRoom == buffer_index # KEYBOARD_NUM_KEYS

\* press_other_key without Ctrl; a key that does not fit is dropped.
PressKey(key) ==
    /\ HasRoom
    /\ buffer_key' = [buffer_key EXCEPT ![cur_term_id][buffer_index] = key]
    /\ buffer_index' = buffer_index + 1
    /\ calls' = Disturbed(calls)
    /\ entered' = Touched
    /\ UNCHANGED <<saved_index, return_flag, cur_term_id, is_in_use_flag>>

\* press_bskp
Backspace ==
    /\ buffer_index > 0
    /\ buffer_key' = [buffer_key EXCEPT ![cur_term_id][buffer_index - 1] = KEY_NULL]
    /\ buffer_index' = buffer_index - 1
    /\ calls' = Disturbed(calls)
    /\ entered' = Touched
    /\ UNCHANGED <<saved_index, return_flag, cur_term_id, is_in_use_flag>>

\* press_enter's store of the null key at buffer_index.  Past the end of a full
\* buffer it hits what the linker put there: the next terminal's buffer, or
\* something that does not matter to this module.
UnterminatedBuffers == {buffer_key}

TerminatedBuffers ==
    IF HasRoom
      THEN {[buffer_key EXCEPT ![cur_term_id][buffer_index] = KEY_NULL]}
      ELSE {buffer_key} \cup
           {[buffer_key EXCEPT ![t][0] = KEY_NULL] : t \in Terminals \cap {cur_term_id + 1}}

\* press_enter
Enter ==
    /\ buffer_key' \in TerminatedBuffers
    /\ buffer_index' = 0
    /\ return_flag' = 1
    /\ calls' = Answered(calls)
    /\ entered' = [line |-> Typed(cur_term_id, buffer_index), intact |-> TRUE]
    /\ UNCHANGED <<saved_index, cur_term_id, is_in_use_flag>>

\* As CtrlL, and the flag is cleared as well.
ForgetfulCtrlL ==
    /\ buffer_index' = 0
    /\ return_flag' = 0
    /\ UNCHANGED <<buffer_key, saved_index, cur_term_id, is_in_use_flag, calls, entered>>

\* Ctrl+L: the screen and the line being typed are cleared.
CtrlL ==
    /\ buffer_index' = 0
    /\ UNCHANGED <<buffer_key, saved_index, return_flag, cur_term_id, is_in_use_flag,
                   calls, entered>>

\* Ctrl+C, or an exception, ends the running program and its call.
Kill ==
    /\ calls' = WithoutTop(calls)
    /\ UNCHANGED <<buffer_key, buffer_index, saved_index, return_flag, cur_term_id,
                   is_in_use_flag, entered>>

ForgottenIndex(t) == 0

RestoredIndex(t) == saved_index[t]

\* terminal_save of the terminal on the screen, terminal_restore of t.
Show(t) ==
    /\ saved_index' = [saved_index EXCEPT ![cur_term_id] = buffer_index]
    /\ buffer_index' = RestoredIndex(t)
    /\ cur_term_id' = t
    /\ entered' = Touched
    /\ UNCHANGED <<buffer_key, return_flag>>

\* terminal_change
ChangeTerminal(t) ==
    /\ t # cur_term_id
    /\ is_in_use_flag[t]
    /\ Show(t)
    /\ calls' = Disturbed(calls)
    /\ UNCHANGED is_in_use_flag

\* terminal_launch: nothing starts when the process table is full.
LaunchTerminal(t) ==
    /\ t # cur_term_id
    /\ ~is_in_use_flag[t]
    /\ Show(t)
    /\ calls' = IF Depth < MAX_PROCESSES THEN WithNewTop(Disturbed(calls))
                                         ELSE Disturbed(calls)
    /\ is_in_use_flag' = [is_in_use_flag EXCEPT ![t] = TRUE]

-----------------------------------------------------------------------------
(* Programs.                                                                *)

\* A program executes another.
Execute ==
    /\ Top.at = "user"
    /\ Depth < MAX_PROCESSES
    /\ calls' = WithNewTop(calls)
    /\ UNCHANGED <<buffer_key, buffer_index, saved_index, return_flag, cur_term_id,
                   is_in_use_flag, entered>>

\* A program halts.
Halt ==
    /\ Top.at = "user"
    /\ calls' = WithoutTop(calls)
    /\ UNCHANGED <<buffer_key, buffer_index, saved_index, return_flag, cur_term_id,
                   is_in_use_flag, entered>>

\* What keyboard_read does to return_flag when it begins.
KeptFlag == return_flag

ResetFlag == 0

\* keyboard_read begins.
ReadBegins(n) ==
    /\ Top.at = "user"
    /\ SetTop([InProgram EXCEPT !.at = "spin", !.nbytes = n])
    /\ return_flag' = ResetFlag
    /\ UNCHANGED <<buffer_key, buffer_index, saved_index, cur_term_id, is_in_use_flag,
                   entered>>

ReadUnchanged == UNCHANGED <<buffer_key, buffer_index, saved_index, return_flag,
                             cur_term_id, is_in_use_flag, entered>>

\* The wait ends.
ReadSees ==
    /\ Top.at = "spin"
    /\ return_flag # 0
    /\ SetTop([Top EXCEPT !.at = "copy", !.quiet = entered.intact])
    /\ ReadUnchanged

\* The character the terminal on the screen has at the call's position now.
CharNow == buffer_key[cur_term_id][Top.i]

AtEnd == Top.i = KEYBOARD_NUM_KEYS

AtLimit == Top.i >= Top.nbytes

\* A character is copied to byte i of the program's buffer.
CopyChar ==
    /\ Top.at = "copy"
    /\ ~AtEnd
    /\ ~AtLimit
    /\ SetTop([Top EXCEPT !.at = "check", !.got = Append(SubSeq(@, 1, Top.i), CharNow)])
    /\ ReadUnchanged

StuckPosition == Top.i

NextPosition == Top.i + 1

\* It was not the null key: on to the next one.
NextChar ==
    /\ Top.at = "check"
    /\ CharNow # KEY_NULL
    /\ SetTop([Top EXCEPT !.at = "copy", !.i = NextPosition])
    /\ ReadUnchanged

\* keyboard_read returns in one of three ways, with one of two values.
NullKeySeen == Top.at = "check" /\ CharNow = KEY_NULL

LimitReached == Top.at = "copy" /\ ~AtEnd /\ AtLimit

BufferCopied == Top.at = "copy" /\ AtEnd

ReturnValue == IF BufferCopied THEN 0 ELSE Top.i

ReadReturns ==
    /\ NullKeySeen \/ LimitReached \/ BufferCopied
    /\ SetTop(InProgram)
    /\ ReadUnchanged

ReadStep == ReadSees \/ CopyChar \/ NextChar \/ ReadReturns

Next ==
    \/ \E key \in Keys : PressKey(key)
    \/ Backspace
    \/ Enter
    \/ CtrlL
    \/ \E t \in Terminals : ChangeTerminal(t)
    \/ \E t \in Terminals : LaunchTerminal(t)
    \/ Execute
    \/ Halt
    \/ \E n \in ReadSizes : ReadBegins(n)
    \/ ReadSees
    \/ CopyChar
    \/ NextChar
    \/ ReadReturns
    \/ Kill

Spec == Init /\ [][Next]_vars

\* The processor executes keyboard_read; no key is ever assumed to be pressed.
FairSpec == Spec /\ WF_vars(ReadStep)

-----------------------------------------------------------------------------
(* Properties.                                                              *)

TypeOK ==
    /\ buffer_key \in [Terminals -> [Cells -> Keys \cup {KEY_NULL}]]
    /\ buffer_index \in 0..KEYBOARD_NUM_KEYS
    /\ saved_index \in [Terminals -> 0..KEYBOARD_NUM_KEYS]
    /\ return_flag \in {0, 1}
    /\ cur_term_id \in Terminals
    /\ is_in_use_flag \in [Terminals -> BOOLEAN]
    /\ calls \in Seq(Call) /\ Depth \in 1..MAX_PROCESSES
    /\ entered \in [line : Seq(Keys \cup {KEY_NULL}), intact : BOOLEAN]

\* The line a terminal's user is in the middle of typing.
Line(t) == Typed(t, IF t = cur_term_id THEN buffer_index ELSE saved_index[t])

\* Enter with a full buffer.
EnterOverruns == Enter /\ ~HasRoom

\* The unfinished line of a terminal that is not on the screen stays as it is,
\* and so does every unfinished line when another terminal is shown or launched;
\* only an Enter at the end of a full buffer, on another terminal, can spoil it.
\* (terminal_save, terminal_restore, press_enter)
UnfinishedLinesKept ==
    [][\A t \in Terminals :
          (t # cur_term_id \/ cur_term_id' # cur_term_id) => Line(t)' = Line(t) \/ EnterOverruns]_vars

\* A read ends its wait only after an Enter pressed since it began, although the
\* flag is shared by every program that waits, on all terminals, and a program
\* that was killed may have left it set.  (keyboard_read, press_enter)
ReadsWaitForEnter == [][ReadSees => Top.answered]_vars

\* What keyboard_read has copied, without the null key.
KeysCopied(got) == IF got # <<>> /\ Last(got) = KEY_NULL THEN Front(got) ELSE got

FirstOf(line, n) == SubSeq(line, 1, IF n < Len(line) THEN n ELSE Len(line))

\* A full line entered on the terminal before put a null key into this line.
LineSpoilt == \E i \in 1..Len(entered.line) : entered.line[i] = KEY_NULL

\* A read that no key disturbs from the Enter on gets exactly the line that was
\* entered, or as much of it as it asked for, whatever was typed, erased,
\* entered or read before; and it returns how many keys that is, as its comment
\* says.  Against that comment, a line that fills the whole buffer and is copied
\* whole is answered by the 0 at the end of keyboard_read: nothing is claimed of
\* the answer then.  (press_enter, press_bskp, keyboard_read)
QuietReadGetsLine ==
    [][ReadReturns /\ Top.quiet /\ ~LineSpoilt
         => LET line == FirstOf(entered.line, Top.nbytes)
            IN  /\ KeysCopied(Top.got) = line
                /\ Len(line) < KEYBOARD_NUM_KEYS => ReturnValue = Len(line)]_vars

\* An Enter pressed while a program waits for it is there when the program looks,
\* whatever other keys come first: it can be lost, to a read of its own, only by
\* a program started on top of the one that waits.  (keyboard_read's reset of the
\* flag, terminal_launch)
EnterNotLost ==
    \A i \in 1..Depth :
        calls[i].at = "spin" /\ calls[i].answered /\ ~calls[i].covered => return_flag = 1

\* The i-th program runs in keyboard_read and has been given its Enter, or one
\* that came while another program was on top of it and that is still there.
EnterGiven(i) ==
    /\ Depth = i
    /\ \/ calls[i].at \in {"copy", "check"}
       \/ /\ calls[i].at = "spin"
          /\ return_flag = 1 \/ (calls[i].answered /\ ~calls[i].covered)

\* Once the program that waits has been given an Enter its own read ends, whatever
\* else is typed into the buffer it is copying from; only a program started on
\* top of it can keep it from going on.  (keyboard_read)
EnterEndsRead ==
    \A i \in 1..MAX_PROCESSES : EnterGiven(i) ~> (Depth # i \/ calls[i].at = "user")
=============================================================================
