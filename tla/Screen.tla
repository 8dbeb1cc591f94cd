------------------------------- MODULE Screen -------------------------------
(***************************************************************************)
(* The cursor: putc (lib.c), called by programs through keyboard_write and *)
(* by the keyboard handler, Backspace, Ctrl+L, and the saving and          *)
(* restoring of coordinates when another terminal is shown (keyboard.c).   *)
(*                                                                         *)
(* The handler runs with interrupts disabled: a key is one step.  putc of  *)
(* a program is interrupted between any two accesses to screen_x and       *)
(* screen_y, each of which the build loads and stores by itself; a key may *)
(* then move the cursor, show another terminal, launch a shell above the   *)
(* program or kill it.  Of what is drawn only the line being typed is      *)
(* kept, with what Backspace erases of it, until a program prints; what an *)
(* exception prints is as if the program had, before it is killed.         *)
(*                                                                         *)
(* calls[i] is the putc of the i-th nested program: at names the access it *)
(* makes next ("user": none), value is what it has loaded.                 *)
(***************************************************************************)
EXTENDS Integers, Sequences, SequencesExt

CONSTANTS
    NUM_ROWS,           \* of the screen
    NUM_COLS,
    NUM_TERM,           \* terminals
    MAX_PROCESSES,      \* slots of the process table
    KEYBOARD_NUM_KEYS,  \* characters a line holds
    MaxRow,             \* bounds of the model: a cursor that interrupted putcs
    MaxColumn           \* have taken off the screen goes no further than this

ASSUME SizesAssumption ==
    /\ NUM_ROWS \in Nat /\ NUM_ROWS > 1
    /\ NUM_COLS \in Nat /\ NUM_COLS > 1
    /\ NUM_TERM \in Nat \ {0}
    /\ MAX_PROCESSES \in Nat \ {0}
    /\ KEYBOARD_NUM_KEYS \in 1..(NUM_COLS * (NUM_ROWS - 1) - 1)

ASSUME BoundsAssumption ==
    /\ MaxRow \in Nat /\ MaxRow >= NUM_ROWS
    /\ MaxColumn \in Nat /\ MaxColumn >= NUM_COLS

VARIABLES
    screen_x,           \* where the next character goes
    screen_y,
    buffer_index,       \* length of the line being typed on the shown terminal
    terminals,          \* terminal not shown -> its saved coordinates and index
    cur_term_id,        \* the terminal on the screen
    is_in_use_flag,     \* terminal -> has a shell been launched on it
    calls,              \* the nested programs
    line_start,         \* history: terminal -> {the cell its line began in}, {} if
                        \* no line is followed
    drawn               \* history: terminal -> the cells that hold characters of it

vars == <<screen_x, screen_y, buffer_index, terminals, cur_term_id, is_in_use_flag,
          calls, line_start, drawn>>

Terminals == 0..(NUM_TERM - 1)

Rows == 0..(NUM_ROWS - 1)

Columns == 0..(NUM_COLS - 1)

Call == [at : {"user"}] \cup
        [at : {"test last row", "load row", "column 0", "load column", "test row",
               "test corner", "test column", "load wrap"}, newline : BOOLEAN] \cup
        [at : {"store row", "store column", "store wrap"}, newline : BOOLEAN, value : Nat]

InProgram == [at |-> "user"]

Depth == Len(calls)

Top == calls[Depth]

SetTop(call) == calls' = ReplaceAt(calls, Depth, call)

\* The program on top ends; the last one is replaced by a new shell.
WithoutTop(stack) == IF Len(stack) > 1 THEN Front(stack) ELSE <<InProgram>>

\* The program on top is in putc.
Printing == Top.at # "user"

\* The cell of video memory at the cursor.
Cell == NUM_COLS * screen_y + screen_x

Origin == [x |-> 0, y |-> 0, buffer_index |-> 0]

Init ==
    /\ screen_x = 0 /\ screen_y = 0
    /\ buffer_index = 0
    /\ terminals = [t \in Terminals |-> Origin]
    /\ cur_term_id = 0
    /\ is_in_use_flag = [t \in Terminals |-> t = 0]
    /\ calls = <<InProgram>>
    /\ line_start = [t \in Terminals |-> {}]
    /\ drawn = [t \in Terminals |-> {}]

-----------------------------------------------------------------------------
(* Keys.  putc in the handler is not interrupted.                           *)

HandlerUnchanged == UNCHANGED <<terminals, cur_term_id, is_in_use_flag, calls>>

\* A line is followed until a program prints on its terminal.
UnlessPrinting(lines) == IF Printing THEN [lines EXCEPT ![cur_term_id] = {}] ELSE lines

KeepsLine ==
    /\ line_start' = UnlessPrinting(line_start)
    /\ drawn' = UnlessPrinting(drawn)

EndsLine ==
    /\ line_start' = [line_start EXCEPT ![cur_term_id] = {}]
    /\ drawn' = [drawn EXCEPT ![cur_term_id] = {}]

AtLastRow == screen_y >= NUM_ROWS - 1

\* putc of a character
PutChar ==
    /\ screen_x' = (screen_x + 1) % NUM_COLS
    /\ screen_y' = IF screen_x + 1 >= NUM_COLS /\ ~AtLastRow THEN screen_y + 1 ELSE screen_y

\* putc of a newline
PutNewline ==
    /\ screen_x' = 0
    /\ screen_y' = IF AtLastRow THEN screen_y ELSE screen_y + 1

\* Where what was in a cell is after a character has been put.
Moved(cell) == IF screen_x + 1 >= NUM_COLS /\ AtLastRow THEN cell - NUM_COLS ELSE cell

MovedCells(cells) == {Moved(cell) : cell \in cells}

\* The line a character is added to: one that begins off the screen is not followed.
LineTyped ==
    IF buffer_index > 0 THEN line_start[cur_term_id]
    ELSE IF screen_x \in Columns THEN {Cell} ELSE {}

\* press_other_key without Ctrl
PressKey ==
    /\ buffer_index # KEYBOARD_NUM_KEYS
    /\ buffer_index' = buffer_index + 1
    /\ PutChar
    /\ line_start' = UnlessPrinting([line_start EXCEPT ![cur_term_id] = MovedCells(LineTyped)])
    /\ drawn' = UnlessPrinting([drawn EXCEPT ![cur_term_id] =
                    IF LineTyped = {} THEN {} ELSE Nat \cap MovedCells(@ \cup {Cell})])
    /\ HandlerUnchanged

\* press_enter
Enter ==
    /\ buffer_index' = 0
    /\ PutNewline
    /\ EndsLine
    /\ HandlerUnchanged

\* press_bskp: the row Backspace goes to from the first column.
SameRow == screen_y

RowAbove == screen_y - 1

RowBefore == IF screen_y > 0 THEN screen_y - 1 ELSE screen_y

\* press_bskp: the cell it makes blank, none at column 0 of the first two rows.
ErasedInRow == IF screen_x > 0 THEN {Cell - 1} ELSE {}

Erased == IF screen_y > 1 \/ screen_x > 0 THEN {Cell - 1} ELSE {}

\* press_bskp
Backspace ==
    /\ buffer_index > 0
    /\ buffer_index' = buffer_index - 1
    /\ screen_x' = IF screen_x # 0 THEN screen_x - 1 ELSE NUM_COLS - 1
    /\ screen_y' = IF screen_x # 0 THEN screen_y ELSE RowBefore
    /\ line_start' = UnlessPrinting(line_start)
    /\ drawn' = UnlessPrinting([drawn EXCEPT ![cur_term_id] = @ \ Erased])
    /\ HandlerUnchanged

\* Ctrl+L
CtrlL ==
    /\ buffer_index' = 0
    /\ screen_x' = 0 /\ screen_y' = 0
    /\ EndsLine
    /\ HandlerUnchanged

\* terminal_save
Saved == [x |-> screen_x, y |-> screen_y, buffer_index |-> buffer_index]

\* terminal_save of the shown terminal, terminal_restore of t.  What is left in
\* the entry of the shown terminal is written before it is read again: forgotten.
Show(t) ==
    /\ terminals' = [terminals EXCEPT ![cur_term_id] = Saved, ![t] = Origin]
    /\ screen_x' = terminals[t].x
    /\ screen_y' = terminals[t].y
    /\ buffer_index' = terminals[t].buffer_index
    /\ cur_term_id' = t
    /\ KeepsLine

\* terminal_change
ChangeTerminal(t) ==
    /\ t # cur_term_id
    /\ is_in_use_flag[t]
    /\ Show(t)
    /\ UNCHANGED <<is_in_use_flag, calls>>

\* terminal_launch: nothing starts when the process table is full.
LaunchTerminal(t) ==
    /\ t # cur_term_id
    /\ ~is_in_use_flag[t]
    /\ Show(t)
    /\ is_in_use_flag' = [is_in_use_flag EXCEPT ![t] = TRUE]
    /\ calls' = IF Depth < MAX_PROCESSES THEN Append(calls, InProgram) ELSE calls

ScreenUnchanged ==
    /\ UNCHANGED <<screen_x, screen_y, buffer_index, terminals, cur_term_id, is_in_use_flag>>
    /\ KeepsLine

\* Ctrl+C, or an exception
Kill ==
    /\ calls' = WithoutTop(calls)
    /\ ScreenUnchanged

-----------------------------------------------------------------------------
(* Programs.                                                                *)

\* execute and halt
Execute ==
    /\ Top.at = "user"
    /\ Depth < MAX_PROCESSES
    /\ calls' = Append(calls, InProgram)
    /\ ScreenUnchanged

Halt ==
    /\ Top.at = "user"
    /\ calls' = WithoutTop(calls)
    /\ ScreenUnchanged

\* putc's accesses.
At(place) == Top.at = place

Goto(place) == SetTop([at |-> place, newline |-> Top.newline])

GotoWith(place, value) == SetTop([at |-> place, newline |-> Top.newline, value |-> value])

Stores ==
    /\ UNCHANGED <<buffer_index, terminals, cur_term_id, is_in_use_flag>>
    /\ KeepsLine

StoresRow(y) == y <= MaxRow /\ screen_y' = y /\ UNCHANGED screen_x /\ Stores

StoresColumn(x) == x <= MaxColumn /\ screen_x' = x /\ UNCHANGED screen_y /\ Stores

\* keyboard_write calls putc for a character that is not null.
PutcBegins(newline) ==
    /\ At("user")
    /\ SetTop([at |-> IF newline THEN "test last row" ELSE "load column", newline |-> newline])
    /\ ScreenUnchanged

\* A newline goes to the next row, or moves the screen up, and to column 0.  What
\* move_screen_up moves is of lines no longer followed.
NewlineHasRow ==
    At("test last row") /\ screen_y < NUM_ROWS - 1 /\ Goto("load row") /\ ScreenUnchanged

NewlineMovesUp ==
    At("test last row") /\ AtLastRow /\ Goto("column 0") /\ ScreenUnchanged

LoadRow == At("load row") /\ GotoWith("store row", screen_y) /\ ScreenUnchanged

StoreRow ==
    /\ At("store row")
    /\ Goto(IF Top.newline THEN "column 0" ELSE "load wrap")
    /\ StoresRow(Top.value + 1)

Column0 == At("column 0") /\ SetTop(InProgram) /\ StoresColumn(0)

\* A character advances the column; past the last one it does what a newline does.
LoadColumn == At("load column") /\ GotoWith("store column", screen_x) /\ ScreenUnchanged

StoreColumn == At("store column") /\ Goto("test row") /\ StoresColumn(Top.value + 1)

TestRow ==
    At("test row") /\ Goto(IF AtLastRow THEN "test corner" ELSE "test column") /\ ScreenUnchanged

CornerMovesUp ==
    At("test corner") /\ screen_x >= NUM_COLS /\ Goto("load wrap") /\ ScreenUnchanged

NotInCorner ==
    At("test corner") /\ screen_x < NUM_COLS /\ Goto("test column") /\ ScreenUnchanged

TestColumn ==
    At("test column") /\ Goto(IF screen_x >= NUM_COLS THEN "load row" ELSE "load wrap") /\ ScreenUnchanged

LoadWrap == At("load wrap") /\ GotoWith("store wrap", screen_x) /\ ScreenUnchanged

Unwrapped(x) == x

Wrapped(x) == x % NUM_COLS

StoreWrap == At("store wrap") /\ SetTop(InProgram) /\ StoresColumn(Wrapped(Top.value))

Next ==
    \/ PressKey
    \/ Enter
    \/ Backspace
    \/ CtrlL
    \/ \E t \in Terminals : ChangeTerminal(t)
    \/ \E t \in Terminals : LaunchTerminal(t)
    \/ Execute
    \/ Halt
    \/ \E newline \in BOOLEAN : PutcBegins(newline)
    \/ NewlineHasRow
    \/ NewlineMovesUp
    \/ LoadRow
    \/ StoreRow
    \/ Column0
    \/ LoadColumn
    \/ StoreColumn
    \/ TestRow
    \/ CornerMovesUp
    \/ NotInCorner
    \/ TestColumn
    \/ LoadWrap
    \/ StoreWrap
    \/ Kill

Spec == Init /\ [][Next]_vars

-----------------------------------------------------------------------------
(* Properties.                                                              *)

Coordinate == [x : 0..MaxColumn, y : 0..MaxRow, buffer_index : 0..KEYBOARD_NUM_KEYS]

TypeOK ==
    /\ Saved \in Coordinate
    /\ terminals \in [Terminals -> Coordinate]
    /\ cur_term_id \in Terminals
    /\ is_in_use_flag \in [Terminals -> BOOLEAN]
    /\ calls \in Seq(Call) /\ Depth \in 1..MAX_PROCESSES
    /\ line_start \in [Terminals -> SUBSET Int]
    /\ drawn \in [Terminals -> SUBSET Nat]

\* The length and the cursor of the line a terminal's user is typing.
TypedOn(t) == IF t = cur_term_id THEN Saved ELSE terminals[t]

\* The cell after the line's last character.
LineEnd(t, first) == first + TypedOn(t).buffer_index

\* On every terminal, until a program prints there, the cursor stands where the line
\* being typed ends, as many cells past its first one as the buffer holds characters,
\* and the line's cells hold what was typed: Backspace takes back the last character
\* from buffer, cursor and screen, across rows, after the screen has moved up and
\* while other terminals are used.  One character it can leave on the screen: the
\* last of the first row, when it goes back from the second.  keyboard.c:526 erases
\* nothing at column 0 of rows 0 and 1, where :509 says "Will modify the buffer array
\* and index and the screen"; at row 0 there is no cell before, at row 1 there is.
\* (press_other_key, press_bskp, putc, move_screen_up, terminal_save, terminal_restore)
LineFollowsCursor ==
    \A t \in Terminals : \A first \in line_start[t] :
        (t = cur_term_id => ~Printing) =>
            LET cells == first..(LineEnd(t, first) - 1)
            IN  /\ NUM_COLS * TypedOn(t).y + TypedOn(t).x = LineEnd(t, first)
                /\ cells \subseteq drawn[t]
                /\ drawn[t] \ cells \subseteq {NUM_COLS - 1}

-----------------------------------------------------------------------------
(* What the comments say and the code does not do.                          *)

\* "Move the screen up if the next character reach bottom of the screen row"
\* (putc): the cursor never goes below the last row.
CursorOnScreen == screen_y \in Rows
=============================================================================
