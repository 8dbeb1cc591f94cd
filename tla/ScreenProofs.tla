---------------------------- MODULE ScreenProofs ----------------------------
(***************************************************************************)
(* Proofs about module Screen: types, and the line that is being typed.    *)
(***************************************************************************)
EXTENDS Screen, TLAPS, SequenceTheorems

-----------------------------------------------------------------------------
(* Facts about the operators.                                               *)

\* A column past the end of a row by less than a row wraps to the next one.
LEMMA WrapFacts == ASSUME NEW x \in Nat
                   PROVE  /\ x % NUM_COLS \in Columns
                          /\ x % NUM_COLS <= x
                          /\ x < NUM_COLS => x % NUM_COLS = x
                          /\ NUM_COLS <= x /\ x < 2 * NUM_COLS => x % NUM_COLS = x - NUM_COLS
  <1>1. NUM_COLS \in Nat /\ NUM_COLS > 1
    BY SizesAssumption
  <1> DEFINE q == x \div NUM_COLS
             r == x % NUM_COLS
  <1>2. q \in Int /\ r \in 0..(NUM_COLS - 1) /\ x = NUM_COLS * q + r
    BY <1>1
  <1> HIDE DEF q, r
  <1>3. q >= 0
    <2>1. CASE q < 0
      <3>1. NUM_COLS * q <= NUM_COLS * (-1)
        BY <1>1, <1>2, <2>1
      <3>2. QED
        BY <1>1, <1>2, <3>1
    <2>2. QED
      BY <1>2, <2>1
  <1>4. NUM_COLS * q >= 0
    BY <1>1, <1>2, <1>3
  <1>5. x < NUM_COLS => r = x
    <2>1. CASE q >= 1
      <3>1. NUM_COLS * q >= NUM_COLS * 1
        BY <1>1, <1>2, <2>1
      <3>2. QED
        BY <1>1, <1>2, <3>1
    <2>2. CASE q = 0
      BY <1>1, <1>2, <2>2
    <2>3. QED
      BY <1>2, <1>3, <2>1, <2>2
  <1>6. NUM_COLS <= x /\ x < 2 * NUM_COLS => r = x - NUM_COLS
    <2>1. CASE q >= 2
      <3>1. NUM_COLS * q >= NUM_COLS * 2
        BY <1>1, <1>2, <2>1
      <3>2. QED
        BY <1>1, <1>2, <3>1
    <2>2. CASE q = 0 \/ q = 1
      BY <1>1, <1>2, <2>2
    <2>3. QED
      BY <1>2, <1>3, <2>1, <2>2
  <1>7. r <= x
    BY <1>1, <1>2, <1>4
  <1>8. QED
    BY <1>2, <1>5, <1>6, <1>7 DEF r, Columns

\* The nested programs.
Stack(c) == c \in Seq(Call) /\ Len(c) \in 1..MAX_PROCESSES

LEMMA InProgramIsCall == InProgram \in Call
  BY DEF InProgram, Call

\* The program on top makes its next access.
LEMMA SetTopFacts ==
    ASSUME Stack(calls), NEW call \in Call, SetTop(call)
    PROVE  /\ Stack(calls')
           /\ Len(calls') = Depth
           /\ calls'[Depth] = call
           /\ \A i \in 1..(Depth - 1) : calls'[i] = calls[i]
  <1>1. calls \in Seq(Call) /\ Depth \in 1..Len(calls) /\ Len(calls) \in 1..MAX_PROCESSES
    BY SizesAssumption DEF Stack, Depth
  <1>2. calls' = [calls EXCEPT ![Depth] = call]
    BY DEF SetTop, ReplaceAt
  <1>3. /\ calls' \in Seq(Call)
        /\ Len(calls') = Len(calls)
        /\ \A j \in 1..Len(calls) : calls'[j] = IF j = Depth THEN call ELSE calls[j]
    BY <1>1, <1>2, ExceptSeq
  <1>4. QED
    BY <1>1, <1>3 DEF Stack, Depth

\* A program is started on top.
LEMMA AppendFacts ==
    ASSUME Stack(calls), Depth < MAX_PROCESSES
    PROVE  LET c == Append(calls, InProgram)
           IN  /\ Stack(c)
               /\ Len(c) = Depth + 1
               /\ c[Depth + 1] = InProgram
               /\ \A i \in 1..Depth : c[i] = calls[i]
  <1>1. calls \in Seq(Call) /\ Len(calls) \in 1..MAX_PROCESSES
    BY DEF Stack
  <1> DEFINE c == Append(calls, InProgram)
  <1>2. /\ c \in Seq(Call)
        /\ Len(c) = Len(calls) + 1
        /\ \A i \in 1..Len(calls) : c[i] = calls[i]
        /\ c[Len(calls) + 1] = InProgram
    BY <1>1, InProgramIsCall, AppendProperties
  <1> HIDE DEF c
  <1>3. Len(c) \in 1..MAX_PROCESSES
    BY <1>1, <1>2, SizesAssumption DEF Depth
  <1>4. Stack(c) /\ Len(c) = Depth + 1 /\ c[Depth + 1] = InProgram
        /\ \A i \in 1..Depth : c[i] = calls[i]
    BY <1>2, <1>3 DEF Stack, Depth
  <1>5. QED
    BY <1>4 DEF c

\* The program on top ends.
LEMMA WithoutTopFacts ==
    ASSUME Stack(calls)
    PROVE  LET c == WithoutTop(calls)
           IN  /\ Stack(c)
               /\ \A i \in 1..Len(c) : c[i] = InProgram \/ (i < Depth /\ c[i] = calls[i])
  <1>1. calls \in Seq(Call) /\ Len(calls) \in 1..MAX_PROCESSES
    BY DEF Stack
  <1>2. CASE Len(calls) > 1
    <2> DEFINE m == Len(calls) - 1
               c == SubSeq(calls, 1, m)
    <2>1. m \in Int /\ m >= 1 /\ m < Len(calls) /\ m \in 1..MAX_PROCESSES
      BY <1>1, <1>2, SizesAssumption
    <2>2. \A i \in 1..m : calls[i] \in Call
      BY <1>1, <2>1, ElementOfSeq
    <2> HIDE DEF m
    <2>3. /\ c \in Seq(Call)
          /\ Len(c) = IF 1 <= m THEN m - 1 + 1 ELSE 0
          /\ \A i \in 1..(m - 1 + 1) : c[i] = calls[1 + i - 1]
      BY <2>1, <2>2, SubSeqProperties
    <2>4. WithoutTop(calls) = c
      BY <1>2 DEF WithoutTop, Front, m
    <2> HIDE DEF c
    <2>5. Len(c) = m /\ \A i \in 1..m : c[i] = calls[i]
      BY <2>1, <2>3
    <2>6. QED
      BY <1>1, <2>1, <2>3, <2>4, <2>5 DEF Stack, Depth
  <1>3. CASE ~ (Len(calls) > 1)
    <2>1. WithoutTop(calls) = <<InProgram>>
      BY <1>3 DEF WithoutTop
    <2>2. Stack(<<InProgram>>)
      BY InProgramIsCall, SizesAssumption DEF Stack
    <2>3. Len(<<InProgram>>) = 1 /\ <<InProgram>>[1] = InProgram
      OBVIOUS
    <2>4. QED
      BY <2>1, <2>2, <2>3
  <1>4. QED
    BY <1>2, <1>3

\* The access a putc makes next, with what it has loaded.
Loading == {"test last row", "load row", "column 0", "load column", "test row",
            "test corner", "test column", "load wrap"}

Storing == {"store row", "store column", "store wrap"}

LEMMA CallFacts ==
    ASSUME NEW call \in Call
    PROVE  /\ call.at \in {"user"} \cup Loading \cup Storing
           /\ call.at = "user" => call = InProgram
           /\ call.at # "user" => call.newline \in BOOLEAN
           /\ call.at \in Storing => call.value \in Nat
  BY DEF Call, InProgram, Loading, Storing

LEMMA LoadingIsCall == ASSUME NEW place \in Loading, NEW newline \in BOOLEAN
                       PROVE  [at |-> place, newline |-> newline] \in Call
  BY DEF Call, Loading

LEMMA StoringIsCall == ASSUME NEW place \in Storing, NEW newline \in BOOLEAN, NEW value \in Nat
                       PROVE  [at |-> place, newline |-> newline, value |-> value] \in Call
  BY DEF Call, Storing

LEMMA TopIsCall == ASSUME Stack(calls)
                   PROVE  Top \in Call /\ Depth \in Nat \ {0} /\ Depth <= MAX_PROCESSES
  <1>1. calls \in Seq(Call) /\ Depth \in 1..Len(calls) /\ Len(calls) \in 1..MAX_PROCESSES
    BY SizesAssumption DEF Stack, Depth
  <1>2. calls[Depth] \in Call
    BY <1>1, ElementOfSeq
  <1>3. QED
    BY <1>1, <1>2, SizesAssumption DEF Top, Depth

-----------------------------------------------------------------------------
(* Types.                                                                   *)

\* The steps of a putc, from the access they follow to the one they lead to.
LEMMA PutcSteps ==
    ASSUME TypeOK,
           \/ \E newline \in BOOLEAN : PutcBegins(newline)
           \/ NewlineHasRow \/ NewlineMovesUp \/ LoadRow \/ StoreRow \/ Column0 \/ LoadColumn
           \/ StoreColumn \/ TestRow \/ CornerMovesUp \/ NotInCorner \/ TestColumn
           \/ LoadWrap \/ StoreWrap
    PROVE  /\ \E call \in Call : SetTop(call)
           /\ UNCHANGED <<buffer_index, terminals, cur_term_id, is_in_use_flag>>
           /\ screen_x' \in 0..MaxColumn /\ screen_y' \in 0..MaxRow
           /\ KeepsLine
           /\ Printing \/ UNCHANGED <<screen_x, screen_y>>
  <1>1. Stack(calls) /\ screen_x \in 0..MaxColumn /\ screen_y \in 0..MaxRow
        /\ MaxRow \in Nat /\ MaxColumn \in Nat
    BY BoundsAssumption DEF TypeOK, Stack, Depth, Saved, Coordinate
  <1>2. Top \in Call
    BY <1>1, TopIsCall
  <1>3. screen_x \in Nat /\ screen_y \in Nat
    BY <1>1
  <1>4. /\ Top.at # "user" => Top.newline \in BOOLEAN
        /\ Top.at \in Storing => Top.value \in Nat
    BY <1>2, CallFacts
  <1>5. ASSUME ScreenUnchanged
        PROVE  UNCHANGED <<buffer_index, terminals, cur_term_id, is_in_use_flag,
                           screen_x, screen_y>> /\ KeepsLine
    BY <1>5 DEF ScreenUnchanged
  <1>6. ASSUME NEW place \in Loading, Top.at # "user", Goto(place)
        PROVE  \E call \in Call : SetTop(call)
    BY <1>4, <1>6, LoadingIsCall DEF Goto
  <1>7. ASSUME NEW place \in Storing, Top.at # "user", NEW value \in Nat, GotoWith(place, value)
        PROVE  \E call \in Call : SetTop(call)
    BY <1>4, <1>7, StoringIsCall DEF GotoWith
  <1>8. ASSUME NEW y \in Nat, StoresRow(y)
        PROVE  /\ UNCHANGED <<buffer_index, terminals, cur_term_id, is_in_use_flag>>
               /\ KeepsLine
               /\ screen_x' \in 0..MaxColumn /\ screen_y' \in 0..MaxRow
    BY <1>1, <1>8 DEF StoresRow, Stores
  <1>9. ASSUME NEW x \in Nat, StoresColumn(x)
        PROVE  /\ UNCHANGED <<buffer_index, terminals, cur_term_id, is_in_use_flag>>
               /\ KeepsLine
               /\ screen_x' \in 0..MaxColumn /\ screen_y' \in 0..MaxRow
    BY <1>1, <1>9 DEF StoresColumn, Stores
  <1>11. CASE \E newline \in BOOLEAN : PutcBegins(newline)
    <2>1. PICK newline \in BOOLEAN : PutcBegins(newline)
      BY <1>11
    <2> DEFINE place == IF newline THEN "test last row" ELSE "load column"
    <2>2. place \in Loading
      BY DEF Loading
    <2>3. [at |-> place, newline |-> newline] \in Call
      BY <2>2, LoadingIsCall
    <2>4. QED
      BY <1>1, <1>5, <2>1, <2>3 DEF PutcBegins
  <1>12. CASE NewlineHasRow
    BY <1>1, <1>5, <1>6, <1>12 DEF NewlineHasRow, At, Loading
  <1>13. CASE NewlineMovesUp
    BY <1>1, <1>5, <1>6, <1>13 DEF NewlineMovesUp, At, Loading
  <1>14. CASE LoadRow
    <2>1. "store row" \in Storing /\ Top.at # "user"
      BY <1>14 DEF LoadRow, At, Storing
    <2>2. GotoWith("store row", screen_y) /\ ScreenUnchanged
      BY <1>14 DEF LoadRow
    <2>3. \E call \in Call : SetTop(call)
      BY <1>7, <1>3, <2>1, <2>2
    <2>4. QED
      BY <1>1, <1>5, <2>2, <2>3
  <1>15. CASE StoreRow
    <2>1. Top.at \in Storing /\ Top.at # "user"
      BY <1>15 DEF StoreRow, At, Storing
    <2>2. Top.value \in Nat
      BY <1>4, <2>1
    <2>3. Top.value \in Nat /\ Top.value + 1 \in Nat /\ Top.at # "user"
      BY <2>1, <2>2
    <2>4. \E call \in Call : SetTop(call)
      BY <1>6, <1>15, <2>3 DEF StoreRow, Loading
    <2>5. QED
      BY <1>8, <1>15, <2>3, <2>4 DEF StoreRow, Printing
  <1>16. CASE Column0
    BY <1>9, <1>16, InProgramIsCall DEF Column0, At, Printing
  <1>17. CASE LoadColumn
    <2>1. "store column" \in Storing /\ Top.at # "user"
      BY <1>17 DEF LoadColumn, At, Storing
    <2>2. GotoWith("store column", screen_x) /\ ScreenUnchanged
      BY <1>17 DEF LoadColumn
    <2>3. \E call \in Call : SetTop(call)
      BY <1>7, <1>3, <2>1, <2>2
    <2>4. QED
      BY <1>1, <1>5, <2>2, <2>3
  <1>18. CASE StoreColumn
    <2>1. Top.at \in Storing /\ Top.at # "user"
      BY <1>18 DEF StoreColumn, At, Storing
    <2>2. Top.value \in Nat
      BY <1>4, <2>1
    <2>3. Top.value \in Nat /\ Top.value + 1 \in Nat /\ Top.at # "user"
      BY <2>1, <2>2
    <2>4. \E call \in Call : SetTop(call)
      BY <1>6, <1>18, <2>3 DEF StoreColumn, Loading
    <2>5. QED
      BY <1>9, <1>18, <2>3, <2>4 DEF StoreColumn, Printing
  <1>19. CASE TestRow
    BY <1>1, <1>5, <1>6, <1>19 DEF TestRow, At, Loading
  <1>20. CASE CornerMovesUp
    BY <1>1, <1>5, <1>6, <1>20 DEF CornerMovesUp, At, Loading
  <1>21. CASE NotInCorner
    BY <1>1, <1>5, <1>6, <1>21 DEF NotInCorner, At, Loading
  <1>22. CASE TestColumn
    BY <1>1, <1>5, <1>6, <1>22 DEF TestColumn, At, Loading
  <1>23. CASE LoadWrap
    <2>1. "store wrap" \in Storing /\ Top.at # "user"
      BY <1>23 DEF LoadWrap, At, Storing
    <2>2. GotoWith("store wrap", screen_x) /\ ScreenUnchanged
      BY <1>23 DEF LoadWrap
    <2>3. \E call \in Call : SetTop(call)
      BY <1>7, <1>3, <2>1, <2>2
    <2>4. QED
      BY <1>1, <1>5, <2>2, <2>3
  <1>24. CASE StoreWrap
    <2>1. Top.value \in Nat
      BY <1>4, <1>24 DEF StoreWrap, At, Storing
    <2>2. Wrapped(Top.value) \in Nat
      BY <2>1, WrapFacts, SizesAssumption DEF Wrapped, Columns
    <2>3. QED
      BY <1>9, <1>24, <2>2, InProgramIsCall DEF StoreWrap, At, Printing
  <1>25. QED
    BY <1>11, <1>12, <1>13, <1>14, <1>15, <1>16, <1>17, <1>18, <1>19, <1>20, <1>21, <1>22,
       <1>23, <1>24

\* The type invariant with its first conjuncts taken apart.
LEMMA TypeParts ==
    TypeOK <=> /\ screen_x \in 0..MaxColumn /\ screen_y \in 0..MaxRow
               /\ buffer_index \in 0..KEYBOARD_NUM_KEYS
               /\ terminals \in [Terminals -> Coordinate]
               /\ cur_term_id \in Terminals
               /\ is_in_use_flag \in [Terminals -> BOOLEAN]
               /\ Stack(calls)
               /\ line_start \in [Terminals -> SUBSET Int]
               /\ drawn \in [Terminals -> SUBSET Nat]
  BY DEF TypeOK, Saved, Coordinate, Stack, Depth

LEMMA OriginIsCoordinate == Origin \in Coordinate
  BY SizesAssumption, BoundsAssumption DEF Origin, Coordinate

\* A character typed or a newline moves the cursor on the screen or leaves it where
\* interrupted putcs have taken it.
LEMMA PutFacts ==
    ASSUME screen_x \in 0..MaxColumn, screen_y \in 0..MaxRow
    PROVE  /\ PutChar => screen_x' \in Columns /\ screen_y' \in 0..MaxRow
           /\ PutNewline => screen_x' \in Columns /\ screen_y' \in 0..MaxRow
           /\ 0..(NUM_COLS - 1) \subseteq 0..MaxColumn
  <1>1. /\ NUM_ROWS \in Nat /\ NUM_COLS \in Nat /\ NUM_COLS > 1
        /\ MaxRow \in Nat /\ MaxRow >= NUM_ROWS /\ MaxColumn \in Nat /\ MaxColumn >= NUM_COLS
    BY SizesAssumption, BoundsAssumption
  <1>2. screen_x + 1 \in Nat
    BY <1>1
  <1>3. (screen_x + 1) % NUM_COLS \in Columns
    BY <1>2, WrapFacts
  <1>4. ~AtLastRow => screen_y + 1 \in 0..MaxRow
    BY <1>1 DEF AtLastRow
  <1>5. 0 \in Columns
    BY <1>1 DEF Columns
  <1>6. PutChar => screen_x' \in Columns /\ screen_y' \in 0..MaxRow
    BY <1>3, <1>4 DEF PutChar
  <1>7. PutNewline => screen_x' \in Columns /\ screen_y' \in 0..MaxRow
    BY <1>4, <1>5 DEF PutNewline
  <1>8. QED
    BY <1>1, <1>6, <1>7

LEMMA MovedIsInt == ASSUME TypeOK, NEW cell \in Int
                    PROVE  Moved(cell) \in Int /\ Cell \in Int
  BY TypeParts, SizesAssumption, BoundsAssumption DEF Moved, Cell

LEMMA InitTypes == Init => TypeOK
  <1> SUFFICES ASSUME Init PROVE TypeOK
    OBVIOUS
  <1>1. 0 \in Terminals /\ 0 \in 0..MaxColumn /\ 0 \in 0..MaxRow /\ 0 \in 0..KEYBOARD_NUM_KEYS
    BY SizesAssumption, BoundsAssumption DEF Terminals
  <1>2. Stack(<<InProgram>>)
    BY InProgramIsCall, SizesAssumption DEF Stack
  <1>3. QED
    BY <1>1, <1>2, TypeParts, OriginIsCoordinate DEF Init

\* Keys that do not change the terminal.
LEMMA KeyTypes == ASSUME TypeOK, PressKey \/ Enter \/ Backspace \/ CtrlL
                  PROVE  TypeOK'
  <1>1. /\ NUM_COLS \in Nat /\ NUM_COLS > 1 /\ KEYBOARD_NUM_KEYS \in Nat
        /\ MaxRow \in Nat /\ MaxColumn \in Nat /\ MaxColumn >= NUM_COLS
    BY SizesAssumption, BoundsAssumption
  <1>2. /\ screen_x \in 0..MaxColumn /\ screen_y \in 0..MaxRow
        /\ buffer_index \in 0..KEYBOARD_NUM_KEYS
        /\ terminals \in [Terminals -> Coordinate] /\ cur_term_id \in Terminals
        /\ is_in_use_flag \in [Terminals -> BOOLEAN] /\ Stack(calls)
        /\ line_start \in [Terminals -> SUBSET Int] /\ drawn \in [Terminals -> SUBSET Nat]
    BY TypeParts
  <1>3. UNCHANGED <<terminals, cur_term_id, is_in_use_flag, calls>>
    BY DEF PressKey, Enter, Backspace, CtrlL, HandlerUnchanged
  <1>4. screen_x' \in 0..MaxColumn /\ screen_y' \in 0..MaxRow
    <2>1. CASE PressKey \/ Enter
      BY <1>2, <2>1, PutFacts DEF PressKey, Enter, Columns
    <2>2. CASE Backspace
      BY <1>1, <1>2, <2>2 DEF Backspace, RowBefore
    <2>3. CASE CtrlL
      BY <1>1, <2>3 DEF CtrlL
    <2>4. QED
      BY <2>1, <2>2, <2>3
  <1>5. buffer_index' \in 0..KEYBOARD_NUM_KEYS
    BY <1>1, <1>2 DEF PressKey, Enter, Backspace, CtrlL
  <1>6. line_start' \in [Terminals -> SUBSET Int] /\ drawn' \in [Terminals -> SUBSET Nat]
    <2>1. CASE PressKey
      <3> DEFINE start == MovedCells(LineTyped)
                 cells == IF LineTyped = {} THEN {}
                          ELSE Nat \cap MovedCells(drawn[cur_term_id] \cup {Cell})
      <3>1. LineTyped \subseteq Int
        BY <1>2, MovedIsInt, SizesAssumption DEF LineTyped
      <3>2. start \subseteq Int /\ cells \subseteq Nat
        BY <3>1, MovedIsInt DEF MovedCells
      <3> HIDE DEF start, cells
      <3>3. /\ line_start' = UnlessPrinting([line_start EXCEPT ![cur_term_id] = start])
            /\ drawn' = UnlessPrinting([drawn EXCEPT ![cur_term_id] = cells])
        BY <2>1 DEF PressKey, start, cells
      <3>4. QED
        BY <1>2, <3>2, <3>3 DEF UnlessPrinting
    <2>2. CASE Enter \/ CtrlL
      BY <1>2, <2>2 DEF Enter, CtrlL, EndsLine
    <2>3. CASE Backspace
      <3>1. /\ line_start' = UnlessPrinting(line_start)
            /\ drawn' = UnlessPrinting([drawn EXCEPT ![cur_term_id] = drawn[cur_term_id] \ Erased])
        BY <2>3 DEF Backspace
      <3>2. drawn[cur_term_id] \ Erased \subseteq Nat
        BY <1>2
      <3>3. QED
        BY <1>2, <3>1, <3>2 DEF UnlessPrinting
    <2>4. QED
      BY <2>1, <2>2, <2>3
  <1>7. Stack(calls')
    BY <1>2, <1>3
  <1>8. QED
    BY <1>2, <1>3, <1>4, <1>5, <1>6, <1>7, TypeParts DEF TypeOK, Saved, Coordinate, Stack, Depth

\* The other terminals, execute and halt.
LEMMA ProgramTypes ==
    ASSUME TypeOK, \/ \E t \in Terminals : ChangeTerminal(t) \/ LaunchTerminal(t)
                   \/ Execute \/ Halt \/ Kill
    PROVE  TypeOK'
  <1>1. /\ screen_x \in 0..MaxColumn /\ screen_y \in 0..MaxRow
        /\ buffer_index \in 0..KEYBOARD_NUM_KEYS
        /\ terminals \in [Terminals -> Coordinate] /\ cur_term_id \in Terminals
        /\ is_in_use_flag \in [Terminals -> BOOLEAN] /\ Stack(calls)
        /\ line_start \in [Terminals -> SUBSET Int] /\ drawn \in [Terminals -> SUBSET Nat]
        /\ Saved \in Coordinate
    BY TypeParts DEF TypeOK
  <1>2. Stack(WithoutTop(calls)) /\ (Depth < MAX_PROCESSES => Stack(Append(calls, InProgram)))
    BY <1>1, WithoutTopFacts, AppendFacts
  <1>3. Stack(calls')
    BY <1>1, <1>2 DEF ChangeTerminal, LaunchTerminal, Execute, Halt, Kill
  <1>4. KeepsLine
    BY DEF ChangeTerminal, LaunchTerminal, Execute, Halt, Kill, Show, ScreenUnchanged
  <1>5. /\ line_start' \in [Terminals -> SUBSET Int] /\ drawn' \in [Terminals -> SUBSET Nat]
        /\ is_in_use_flag' \in [Terminals -> BOOLEAN]
    <2>1. /\ line_start' \in [Terminals -> SUBSET Int] /\ drawn' \in [Terminals -> SUBSET Nat]
      BY <1>1, <1>4 DEF KeepsLine, UnlessPrinting
    <2>2. is_in_use_flag' \in [Terminals -> BOOLEAN]
      BY <1>1 DEF ChangeTerminal, LaunchTerminal, Execute, Halt, Kill, ScreenUnchanged
    <2>3. QED
      BY <2>1, <2>2
  <1>6. /\ screen_x' \in 0..MaxColumn /\ screen_y' \in 0..MaxRow
        /\ buffer_index' \in 0..KEYBOARD_NUM_KEYS
        /\ terminals' \in [Terminals -> Coordinate] /\ cur_term_id' \in Terminals
    <2>1. ASSUME NEW t \in Terminals, Show(t)
          PROVE  /\ screen_x' \in 0..MaxColumn /\ screen_y' \in 0..MaxRow
                 /\ buffer_index' \in 0..KEYBOARD_NUM_KEYS
                 /\ terminals' \in [Terminals -> Coordinate] /\ cur_term_id' \in Terminals
      <3>1. terminals[t] \in Coordinate
        BY <1>1
      <3>2. /\ screen_x' = terminals[t].x /\ screen_y' = terminals[t].y
            /\ buffer_index' = terminals[t].buffer_index
            /\ cur_term_id' = t
            /\ terminals' = [terminals EXCEPT ![cur_term_id] = Saved, ![t] = Origin]
        BY <2>1 DEF Show
      <3>3. QED
        BY <1>1, <3>1, <3>2, OriginIsCoordinate DEF Coordinate
    <2>2. QED
      BY <1>1, <2>1 DEF ChangeTerminal, LaunchTerminal, Execute, Halt, Kill, ScreenUnchanged
  <1>7. QED
    BY <1>3, <1>5, <1>6, TypeParts DEF TypeOK, Saved, Coordinate, Stack, Depth

LEMMA StepTypes == TypeOK /\ [Next]_vars => TypeOK'
  <1> SUFFICES ASSUME TypeOK, [Next]_vars PROVE TypeOK'
    OBVIOUS
  <1>1. CASE UNCHANGED vars
    BY <1>1 DEF vars, TypeOK, Saved, Depth
  <1>2. CASE PressKey \/ Enter \/ Backspace \/ CtrlL
    BY <1>2, KeyTypes
  <1>3. CASE \/ \E t \in Terminals : ChangeTerminal(t) \/ LaunchTerminal(t)
             \/ Execute \/ Halt \/ Kill
    BY <1>3, ProgramTypes
  <1>4. CASE \/ \E newline \in BOOLEAN : PutcBegins(newline)
             \/ NewlineHasRow \/ NewlineMovesUp \/ LoadRow \/ StoreRow \/ Column0 \/ LoadColumn
             \/ StoreColumn \/ TestRow \/ CornerMovesUp \/ NotInCorner \/ TestColumn
             \/ LoadWrap \/ StoreWrap
    <2>1. /\ \E call \in Call : SetTop(call)
          /\ UNCHANGED <<buffer_index, terminals, cur_term_id, is_in_use_flag>>
          /\ screen_x' \in 0..MaxColumn /\ screen_y' \in 0..MaxRow
          /\ KeepsLine
      BY <1>4, PutcSteps
    <2>2. /\ buffer_index \in 0..KEYBOARD_NUM_KEYS
          /\ terminals \in [Terminals -> Coordinate] /\ cur_term_id \in Terminals
          /\ is_in_use_flag \in [Terminals -> BOOLEAN] /\ Stack(calls)
          /\ line_start \in [Terminals -> SUBSET Int] /\ drawn \in [Terminals -> SUBSET Nat]
      BY TypeParts
    <2>3. Stack(calls')
      BY <2>1, <2>2, SetTopFacts
    <2>4. line_start' \in [Terminals -> SUBSET Int] /\ drawn' \in [Terminals -> SUBSET Nat]
      BY <2>1, <2>2 DEF KeepsLine, UnlessPrinting
    <2>5. QED
      BY <2>1, <2>2, <2>3, <2>4 DEF TypeOK, Saved, Coordinate, Stack, Depth
  <1>5. QED
    BY <1>1, <1>2, <1>3, <1>4 DEF Next

\* All variables keep their types.  (putc, press_bskp, terminal_save)
THEOREM TypeCorrect == Spec => []TypeOK
  <1>1. QED
    BY InitTypes, StepTypes, PTL DEF Spec

-----------------------------------------------------------------------------
(* The line that is being typed.                                            *)

\* The cursor stands on the screen where the line that began in first ends; the line
\* has not moved up off the screen, as it is too short for that; its cells hold its
\* characters, and at most the last cell of the first row holds one erased from it.
FollowsFrom(first, typed, cells) ==
    /\ first >= 0
    /\ typed.x \in Columns
    /\ NUM_COLS * typed.y + typed.x = first + typed.buffer_index
    /\ first..(first + typed.buffer_index - 1) \subseteq cells
    /\ cells \ (first..(first + typed.buffer_index - 1)) \subseteq {NUM_COLS - 1}

Follows(typed, starts, cells) ==
    /\ starts = {} => cells = {}
    /\ \A first \in starts : FollowsFrom(first, typed, cells)

LineInv == \A t \in Terminals : Follows(TypedOn(t), line_start[t], drawn[t])

LEMMA NoLineFollows == ASSUME NEW typed PROVE Follows(typed, {}, {})
  BY DEF Follows

\* What the steps do that leave the cursor where it is, or print.
LEMMA KeptOrEnded ==
    ASSUME TypeOK, KeepsLine
    PROVE  /\ \A t \in Terminals : \/ line_start'[t] = line_start[t] /\ drawn'[t] = drawn[t]
                                   \/ line_start'[t] = {} /\ drawn'[t] = {}
           /\ Printing => line_start'[cur_term_id] = {} /\ drawn'[cur_term_id] = {}
           /\ \A t \in Terminals : t # cur_term_id =>
                 line_start'[t] = line_start[t] /\ drawn'[t] = drawn[t]
  BY TypeParts DEF KeepsLine, UnlessPrinting

\* The cell after a character typed at a cursor on the screen.
LEMMA PutCell ==
    ASSUME TypeOK, PutChar, screen_x \in Columns
    PROVE  /\ screen_x' \in Columns
           /\ \/ /\ Cell' = Cell + 1
                 /\ \A c \in Int : Moved(c) = c
              \/ /\ Cell' = Cell + 1 - NUM_COLS
                 /\ Cell' >= NUM_COLS * (NUM_ROWS - 1)
                 /\ \A c \in Int : Moved(c) = c - NUM_COLS
  <1>1. /\ NUM_COLS \in Nat /\ NUM_COLS > 1 /\ NUM_ROWS \in Nat /\ NUM_ROWS > 1
        /\ MaxRow \in Nat /\ screen_y \in 0..MaxRow /\ screen_x \in 0..(NUM_COLS - 1)
    BY SizesAssumption, BoundsAssumption, TypeParts DEF Columns
  <1>2. PICK x \in Nat : x = screen_x + 1 /\ x <= NUM_COLS
    BY <1>1
  <1>3. /\ screen_x' = x % NUM_COLS
        /\ screen_y' = IF screen_x + 1 >= NUM_COLS /\ ~AtLastRow THEN screen_y + 1 ELSE screen_y
    BY <1>2 DEF PutChar
  <1>4. /\ x % NUM_COLS \in Columns
        /\ x < NUM_COLS => x % NUM_COLS = x
        /\ NUM_COLS <= x => x % NUM_COLS = x - NUM_COLS
    BY <1>1, <1>2, WrapFacts
  <1>5. /\ screen_x' \in Columns
        /\ x < NUM_COLS => screen_x' = x
        /\ NUM_COLS <= x => screen_x' = 0
    BY <1>1, <1>2, <1>3, <1>4
  <1>6. NUM_COLS * (screen_y + 1) = NUM_COLS * screen_y + NUM_COLS /\ NUM_COLS * screen_y \in Int
    BY <1>1
  <1>7. CASE x < NUM_COLS
    BY <1>1, <1>2, <1>3, <1>5, <1>6, <1>7 DEF Cell, Moved
  <1>8. CASE x = NUM_COLS /\ ~AtLastRow
    BY <1>1, <1>2, <1>3, <1>5, <1>6, <1>8 DEF Cell, Moved
  <1>9. CASE x = NUM_COLS /\ AtLastRow
    <2>1. screen_y >= NUM_ROWS - 1
      BY <1>9 DEF AtLastRow
    <2>2. NUM_COLS * screen_y >= NUM_COLS * (NUM_ROWS - 1)
      BY <1>1, <2>1
    <2>3. \A c \in Int : Moved(c) = c - NUM_COLS
      BY <1>1, <1>2, <1>9 DEF Moved
    <2>4. screen_y' = screen_y /\ screen_x' = 0
      BY <1>1, <1>2, <1>3, <1>5, <1>9
    <2>5. Cell' = NUM_COLS * screen_y
      BY <1>1, <1>6, <2>4 DEF Cell
    <2>6. QED
      BY <1>1, <1>2, <1>5, <1>6, <1>9, <2>2, <2>3, <2>5 DEF Cell
  <1>10. QED
    BY <1>1, <1>2, <1>7, <1>8, <1>9

\* The types of what keys use, with the sizes.
LEMMA KeyFacts ==
    ASSUME TypeOK
    PROVE  /\ NUM_COLS \in Nat /\ NUM_COLS > 1 /\ NUM_ROWS \in Nat /\ NUM_ROWS > 1
           /\ KEYBOARD_NUM_KEYS \in 1..(NUM_COLS * (NUM_ROWS - 1) - 1)
           /\ NUM_COLS * (NUM_ROWS - 1) \in Nat
           /\ screen_x \in Nat /\ screen_y \in Nat /\ Cell \in Nat
           /\ buffer_index \in 0..KEYBOARD_NUM_KEYS
           /\ line_start \in [Terminals -> SUBSET Int] /\ drawn \in [Terminals -> SUBSET Nat]
           /\ cur_term_id \in Terminals
  <1>1. /\ screen_x \in 0..MaxColumn /\ screen_y \in 0..MaxRow
        /\ buffer_index \in 0..KEYBOARD_NUM_KEYS
        /\ line_start \in [Terminals -> SUBSET Int] /\ drawn \in [Terminals -> SUBSET Nat]
        /\ cur_term_id \in Terminals
    BY TypeParts
  <1>2. /\ NUM_COLS \in Nat /\ NUM_COLS > 1 /\ NUM_ROWS \in Nat /\ NUM_ROWS > 1
        /\ KEYBOARD_NUM_KEYS \in 1..(NUM_COLS * (NUM_ROWS - 1) - 1)
        /\ MaxColumn \in Nat /\ MaxRow \in Nat
    BY SizesAssumption, BoundsAssumption
  <1>3. screen_x \in Nat /\ screen_y \in Nat /\ NUM_COLS * (NUM_ROWS - 1) \in Nat
    BY <1>1, <1>2
  <1>4. Cell \in Nat
    BY <1>2, <1>3 DEF Cell
  <1>5. QED
    BY <1>1, <1>2, <1>3, <1>4

\* A character is typed where no program prints.
LEMMA PressFollows ==
    ASSUME TypeOK, LineInv, PressKey, ~Printing
    PROVE  Follows(Saved', line_start'[cur_term_id], drawn'[cur_term_id])
  <1> DEFINE old == drawn[cur_term_id]
             new == drawn'[cur_term_id]
  <1>1. /\ NUM_COLS \in Nat /\ NUM_COLS > 1
        /\ KEYBOARD_NUM_KEYS \in 1..(NUM_COLS * (NUM_ROWS - 1) - 1)
        /\ NUM_COLS * (NUM_ROWS - 1) \in Nat
        /\ screen_x \in Nat /\ screen_y \in Nat /\ Cell \in Nat
        /\ buffer_index \in 0..KEYBOARD_NUM_KEYS
        /\ line_start[cur_term_id] \subseteq Int /\ old \subseteq Nat
    BY KeyFacts
  <1>2. /\ buffer_index # KEYBOARD_NUM_KEYS /\ buffer_index' = buffer_index + 1 /\ PutChar
        /\ line_start'[cur_term_id] = MovedCells(LineTyped)
        /\ new = IF LineTyped = {} THEN {} ELSE Nat \cap MovedCells(old \cup {Cell})
    <2>1. /\ line_start' = [line_start EXCEPT ![cur_term_id] = MovedCells(LineTyped)]
          /\ drawn' = [drawn EXCEPT ![cur_term_id] =
                         IF LineTyped = {} THEN {} ELSE Nat \cap MovedCells(old \cup {Cell})]
      BY DEF PressKey, UnlessPrinting
    <2>2. QED
      BY <2>1, KeyFacts DEF PressKey
  <1>3. /\ line_start[cur_term_id] = {} => old = {}
        /\ \A f \in line_start[cur_term_id] : FollowsFrom(f, Saved, old)
    BY KeyFacts DEF LineInv, Follows, TypedOn
  <1>4. ASSUME NEW f \in LineTyped
        PROVE  /\ f \in Int /\ f >= 0 /\ screen_x \in Columns /\ Cell = f + buffer_index
               /\ f..(Cell - 1) \subseteq old
               /\ old \ (f..(Cell - 1)) \subseteq {NUM_COLS - 1}
    <2>1. CASE f \in line_start[cur_term_id]
      <3>1. f \in Int /\ FollowsFrom(f, Saved, old)
        BY <1>1, <1>3, <2>1
      <3>2. f >= 0 /\ screen_x \in Columns /\ Cell = f + buffer_index
        BY <3>1 DEF FollowsFrom, Saved, Cell
      <3>3. /\ f..(f + buffer_index - 1) \subseteq old
            /\ old \ (f..(f + buffer_index - 1)) \subseteq {NUM_COLS - 1}
        BY <3>1 DEF FollowsFrom, Saved
      <3>4. f + buffer_index - 1 = Cell - 1
        BY <1>1, <3>1, <3>2
      <3>5. QED
        BY <3>1, <3>2, <3>3, <3>4
    <2>2. CASE f \notin line_start[cur_term_id]
      <3>1. buffer_index = 0 /\ screen_x \in Columns /\ f = Cell
        BY <1>1, <1>4, <2>2 DEF LineTyped
      <3>2. f..(Cell - 1) = {}
        BY <1>1, <3>1
      <3>3. old \subseteq {NUM_COLS - 1}
        <4>1. ASSUME NEW g \in line_start[cur_term_id]
              PROVE  old \subseteq {NUM_COLS - 1}
          <5>1. g \in Int /\ old \ (g..(g + buffer_index - 1)) \subseteq {NUM_COLS - 1}
            BY <1>1, <1>3, <4>1 DEF FollowsFrom, Saved
          <5>2. g..(g + buffer_index - 1) = {}
            BY <3>1, <5>1
          <5>3. QED
            BY <5>1, <5>2
        <4>2. QED
          BY <1>3, <4>1
      <3>4. QED
        BY <1>1, <3>1, <3>2, <3>3
    <2>3. QED
      BY <2>1, <2>2
  <1>5. LineTyped = {} => line_start'[cur_term_id] = {} /\ new = {}
    BY <1>2 DEF MovedCells
  <1>6. ASSUME NEW first \in line_start'[cur_term_id]
        PROVE  FollowsFrom(first, Saved', new)
    <2>1. PICK f \in LineTyped : first = Moved(f)
      BY <1>2, <1>6 DEF MovedCells
    <2>2. /\ f \in Int /\ f >= 0 /\ screen_x \in Columns /\ Cell = f + buffer_index
          /\ f..(Cell - 1) \subseteq old
          /\ old \ (f..(Cell - 1)) \subseteq {NUM_COLS - 1}
      BY <1>4
    <2>3. new = Nat \cap MovedCells(old \cup {Cell})
      BY <1>2, <2>1
    <2>4. /\ screen_x' \in Columns
          /\ \/ Cell' = Cell + 1 /\ \A c \in Int : Moved(c) = c
             \/ /\ Cell' = Cell + 1 - NUM_COLS /\ Cell' >= NUM_COLS * (NUM_ROWS - 1)
                /\ \A c \in Int : Moved(c) = c - NUM_COLS
      BY <1>2, <2>2, PutCell
    <2>5. /\ Saved'.x = screen_x' /\ Saved'.y = screen_y' /\ Saved'.buffer_index = buffer_index'
          /\ Cell' = NUM_COLS * screen_y' + screen_x'
      BY DEF Saved, Cell
    <2> HIDE DEF old, new
    <2>6. first \in Int /\ buffer_index' \in Int /\ Cell' \in Int
      BY <1>1, <1>2, <2>1, <2>2, <2>4
    <2>10. SUFFICES first >= 0 /\ Cell' = first + buffer_index'
                   /\ first..(Cell' - 1) \subseteq new
                   /\ new \ (first..(Cell' - 1)) \subseteq {NUM_COLS - 1}
      <3>1. Cell' = first + buffer_index' => first + buffer_index' - 1 = Cell' - 1
        BY <2>6
      <3>2. QED
        BY <2>4, <2>5, <2>10, <3>1 DEF FollowsFrom
    <2>7. CASE Cell' = Cell + 1 /\ \A c \in Int : Moved(c) = c
      <3>1. first = f /\ Cell' - 1 = Cell
        BY <1>1, <2>1, <2>2, <2>7
      <3>2. new = old \cup {Cell}
        <4>1. \A c \in old \cup {Cell} : c \in Nat /\ Moved(c) = c
          BY <1>1, <2>7
        <4>2. QED
          BY <2>3, <4>1 DEF MovedCells
      <3>3. f..Cell = (f..(Cell - 1)) \cup {Cell}
        BY <1>1, <2>2
      <3>4. first >= 0 /\ Cell' = first + buffer_index'
        BY <1>1, <1>2, <2>2, <2>7, <3>1
      <3>5. f..Cell \subseteq new /\ new \ (f..Cell) \subseteq {NUM_COLS - 1}
        BY <2>2, <3>2, <3>3
      <3>6. first..(Cell' - 1) = f..Cell
        BY <3>1
      <3>7. QED
        BY <3>4, <3>5, <3>6
    <2>8. CASE /\ Cell' = Cell + 1 - NUM_COLS /\ Cell' >= NUM_COLS * (NUM_ROWS - 1)
               /\ \A c \in Int : Moved(c) = c - NUM_COLS
      <3>1. first = f - NUM_COLS /\ first \in Int /\ Cell' - 1 = Cell - NUM_COLS
        BY <1>1, <2>1, <2>2, <2>8
      <3>2. first >= 0 /\ Cell' = first + buffer_index'
        BY <1>1, <1>2, <2>2, <2>8, <3>1
      <3>3. ASSUME NEW c \in first..(Cell' - 1)
            PROVE  c \in new
        <4>1. c \in Nat /\ c + NUM_COLS \in Nat /\ c + NUM_COLS \in f..Cell
          BY <1>1, <2>2, <3>1, <3>2, <3>3
        <4>2. c + NUM_COLS \in old \cup {Cell}
          BY <1>1, <2>2, <4>1
        <4>3. c = Moved(c + NUM_COLS)
          BY <1>1, <2>8, <4>1
        <4>4. QED
          BY <2>3, <4>1, <4>2, <4>3 DEF MovedCells
      <3>4. ASSUME NEW c \in new, c \notin first..(Cell' - 1)
            PROVE  FALSE
        <4>1. PICK d \in old \cup {Cell} : c = Moved(d)
          BY <2>3, <3>4 DEF MovedCells
        <4>2. c \in Nat /\ d \in Nat /\ c = d - NUM_COLS
          BY <1>1, <2>3, <2>8, <3>4, <4>1
        <4>3. d \notin f..Cell
          BY <1>1, <2>2, <3>1, <3>4, <4>2
        <4>4. d \in old /\ d \notin f..(Cell - 1)
          BY <1>1, <2>2, <4>1, <4>2, <4>3
        <4>5. d = NUM_COLS - 1
          BY <2>2, <4>4
        <4>6. QED
          BY <1>1, <4>2, <4>5
      <3>5. QED
        BY <3>2, <3>3, <3>4
    <2>9. QED
      BY <2>4, <2>7, <2>8
  <1>7. QED
    BY <1>2, <1>5, <1>6 DEF Follows, MovedCells

\* Backspace where no program prints.
LEMMA BackspaceFollows ==
    ASSUME TypeOK, LineInv, Backspace, ~Printing
    PROVE  Follows(Saved', line_start'[cur_term_id], drawn'[cur_term_id])
  <1> DEFINE old == drawn[cur_term_id]
             new == drawn'[cur_term_id]
  <1>1. /\ NUM_COLS \in Nat /\ NUM_COLS > 1 /\ KEYBOARD_NUM_KEYS \in Nat
        /\ screen_x \in Nat /\ screen_y \in Nat /\ Cell \in Nat
        /\ buffer_index \in 0..KEYBOARD_NUM_KEYS
        /\ line_start[cur_term_id] \subseteq Int /\ old \subseteq Nat
    BY KeyFacts
  <1>2. /\ buffer_index > 0 /\ buffer_index' = buffer_index - 1
        /\ screen_x' = IF screen_x # 0 THEN screen_x - 1 ELSE NUM_COLS - 1
        /\ screen_y' = IF screen_x # 0 THEN screen_y ELSE RowBefore
        /\ line_start'[cur_term_id] = line_start[cur_term_id]
        /\ new = old \ Erased
    <2>1. line_start' = line_start /\ drawn' = [drawn EXCEPT ![cur_term_id] = old \ Erased]
      BY DEF Backspace, UnlessPrinting
    <2>2. QED
      BY <2>1, KeyFacts DEF Backspace
  <1>3. /\ line_start[cur_term_id] = {} => old = {}
        /\ \A f \in line_start[cur_term_id] : FollowsFrom(f, Saved, old)
    BY KeyFacts DEF LineInv, Follows, TypedOn
  <1>4. ASSUME NEW f \in line_start[cur_term_id]
        PROVE  FollowsFrom(f, Saved', new)
    <2>1. f \in Int /\ FollowsFrom(f, Saved, old)
      BY <1>1, <1>3, <1>4
    <2>2. f >= 0 /\ screen_x \in 0..(NUM_COLS - 1) /\ Cell = f + buffer_index
      BY <2>1 DEF FollowsFrom, Saved, Cell, Columns
    <2>3. f + buffer_index - 1 = Cell - 1 /\ f + buffer_index' - 1 = Cell - 2
      BY <1>1, <1>2, <2>1, <2>2
    <2>4. /\ f..(Cell - 1) \subseteq old
          /\ old \ (f..(Cell - 1)) \subseteq {NUM_COLS - 1}
      BY <2>1, <2>3 DEF FollowsFrom, Saved
    <2>5. NUM_COLS * (screen_y - 1) = NUM_COLS * screen_y - NUM_COLS
          /\ NUM_COLS * screen_y \in Int
      BY <1>1
    <2>6. /\ Cell' = Cell - 1 /\ screen_x' \in Columns
          /\ screen_x = 0 => screen_y > 0
      <3>1. CASE screen_x # 0
        BY <1>1, <1>2, <2>2, <2>5, <3>1 DEF Cell, Columns
      <3>2. CASE screen_x = 0
        <4>1. screen_y # 0
          BY <1>1, <1>2, <2>1, <2>2, <3>2 DEF Cell
        <4>2. Cell' = NUM_COLS * (screen_y - 1) + (NUM_COLS - 1)
          BY <1>1, <1>2, <3>2, <4>1 DEF Cell, RowBefore
        <4>3. QED
          BY <1>1, <1>2, <2>5, <3>2, <4>1, <4>2 DEF Cell, Columns
      <3>3. QED
        BY <3>1, <3>2
    <2>7. Erased \subseteq {Cell - 1} /\ (Erased # {Cell - 1} => Cell - 1 = NUM_COLS - 1)
      <3>1. CASE screen_y > 1 \/ screen_x > 0
        BY <3>1 DEF Erased
      <3>2. CASE ~ (screen_y > 1 \/ screen_x > 0)
        <4>1. screen_x = 0 /\ screen_y = 1
          BY <1>1, <2>6, <3>2
        <4>2. Cell = NUM_COLS
          BY <1>1, <4>1 DEF Cell
        <4>3. QED
          BY <1>1, <3>2, <4>2 DEF Erased
      <3>3. QED
        BY <3>1, <3>2
    <2> HIDE DEF old, new
    <2>8. f..(Cell - 2) \subseteq new
      BY <1>1, <1>2, <2>1, <2>4, <2>7
    <2>9. new \ (f..(Cell - 2)) \subseteq {NUM_COLS - 1}
      <3>1. ASSUME NEW c \in new, c \notin f..(Cell - 2)
            PROVE  c = NUM_COLS - 1
        <4>1. c \in old /\ c \notin Erased /\ c \in Nat
          BY <1>1, <1>2, <3>1
        <4>2. CASE c = Cell - 1
          BY <2>7, <4>1, <4>2
        <4>3. CASE c # Cell - 1
          <5>1. c \notin f..(Cell - 1)
            BY <1>1, <2>1, <3>1, <4>1, <4>3
          <5>2. QED
            BY <2>4, <4>1, <5>1
        <4>4. QED
          BY <4>2, <4>3
      <3>2. QED
        BY <3>1
    <2>10. Cell' = f + buffer_index'
      BY <1>1, <1>2, <2>1, <2>2, <2>6
    <2>11. /\ Saved'.x = screen_x' /\ Saved'.y = screen_y' /\ Saved'.buffer_index = buffer_index'
           /\ Cell' = NUM_COLS * screen_y' + screen_x'
      BY DEF Saved, Cell
    <2>12. QED
      BY <2>2, <2>3, <2>6, <2>8, <2>9, <2>10, <2>11 DEF FollowsFrom
  <1>5. QED
    BY <1>2, <1>3, <1>4 DEF Follows

\* What keys do to the line of the terminal that is shown.
LEMMA KeysFollow ==
    ASSUME TypeOK, LineInv, PressKey \/ Enter \/ Backspace \/ CtrlL
    PROVE  /\ Follows(Saved', line_start'[cur_term_id], drawn'[cur_term_id])
           /\ \A t \in Terminals : t # cur_term_id =>
                 line_start'[t] = line_start[t] /\ drawn'[t] = drawn[t]
  <1>1. /\ line_start \in [Terminals -> SUBSET Int] /\ drawn \in [Terminals -> SUBSET Nat]
        /\ cur_term_id \in Terminals
    BY TypeParts
  <1>2. CASE Enter \/ CtrlL
    <2>1. EndsLine
      BY <1>2 DEF Enter, CtrlL
    <2>2. QED
      BY <1>1, <2>1, NoLineFollows DEF EndsLine
  <1>3. CASE PressKey \/ Backspace
    <2>1. \E starts, cells :
             /\ line_start' = UnlessPrinting([line_start EXCEPT ![cur_term_id] = starts])
             /\ drawn' = UnlessPrinting([drawn EXCEPT ![cur_term_id] = cells])
      <3>1. CASE PressKey
        BY <3>1 DEF PressKey
      <3>2. CASE Backspace
        <4>1. line_start = [line_start EXCEPT ![cur_term_id] = line_start[cur_term_id]]
          BY <1>1
        <4>2. QED
          BY <3>2, <4>1 DEF Backspace
      <3>3. QED
        BY <1>3, <3>1, <3>2
    <2>2. /\ \A t \in Terminals : t # cur_term_id =>
                line_start'[t] = line_start[t] /\ drawn'[t] = drawn[t]
          /\ Printing => line_start'[cur_term_id] = {} /\ drawn'[cur_term_id] = {}
      BY <1>1, <2>1 DEF UnlessPrinting
    <2>3. Follows(Saved', line_start'[cur_term_id], drawn'[cur_term_id])
      BY <1>3, <2>2, PressFollows, BackspaceFollows, NoLineFollows
    <2>4. QED
      BY <2>2, <2>3
  <1>4. QED
    BY <1>2, <1>3

LEMMA LineSteps == TypeOK /\ LineInv /\ [Next]_vars => LineInv'
  <1> SUFFICES ASSUME TypeOK, LineInv, [Next]_vars PROVE LineInv'
    OBVIOUS
  <1>1. /\ line_start \in [Terminals -> SUBSET Int] /\ cur_term_id \in Terminals
        /\ terminals \in [Terminals -> Coordinate]
    BY TypeParts
  <1>2. CASE UNCHANGED vars
    BY <1>2 DEF vars, LineInv, TypedOn, Saved
  <1>3. CASE PressKey \/ Enter \/ Backspace \/ CtrlL
    <2>1. UNCHANGED <<terminals, cur_term_id>>
      BY <1>3 DEF PressKey, Enter, Backspace, CtrlL, HandlerUnchanged
    <2>2. /\ Follows(Saved', line_start'[cur_term_id], drawn'[cur_term_id])
          /\ \A t \in Terminals : t # cur_term_id =>
                line_start'[t] = line_start[t] /\ drawn'[t] = drawn[t]
      BY <1>3, KeysFollow
    <2>3. QED
      BY <2>1, <2>2 DEF LineInv, TypedOn
  <1>4. ASSUME KeepsLine, UNCHANGED <<buffer_index, terminals, cur_term_id>>,
               Printing \/ UNCHANGED <<screen_x, screen_y>>
        PROVE  LineInv'
    <2> SUFFICES ASSUME NEW t \in Terminals
                 PROVE  Follows(TypedOn(t)', line_start'[t], drawn'[t])
      BY DEF LineInv
    <2>1. Follows(TypedOn(t), line_start[t], drawn[t])
      BY DEF LineInv
    <2>2. CASE line_start'[t] = {} /\ drawn'[t] = {}
      BY <2>2, NoLineFollows
    <2>3. CASE ~ (line_start'[t] = {} /\ drawn'[t] = {})
      <3>1. line_start'[t] = line_start[t] /\ drawn'[t] = drawn[t]
        BY <1>4, <2>3, KeptOrEnded
      <3>2. t # cur_term_id \/ UNCHANGED <<screen_x, screen_y>>
        BY <1>4, <2>3, KeptOrEnded
      <3>3. TypedOn(t)' = TypedOn(t)
        BY <1>4, <3>2 DEF TypedOn, Saved
      <3>4. QED
        BY <2>1, <3>1, <3>3
    <2>4. QED
      BY <2>2, <2>3
  <1>5. ASSUME NEW t \in Terminals, t # cur_term_id, Show(t)
        PROVE  LineInv'
    <2>1. /\ screen_x' = terminals[t].x /\ screen_y' = terminals[t].y
          /\ buffer_index' = terminals[t].buffer_index /\ cur_term_id' = t
          /\ KeepsLine
          /\ terminals' = [terminals EXCEPT ![cur_term_id] = Saved, ![t] = Origin]
      BY <1>5 DEF Show
    <2> SUFFICES ASSUME NEW u \in Terminals
                 PROVE  Follows(TypedOn(u)', line_start'[u], drawn'[u])
      BY DEF LineInv
    <2>2. TypedOn(u)' = TypedOn(u)
      <3>1. CASE u = t
        <4>1. terminals[t] = [x |-> terminals[t].x, y |-> terminals[t].y,
                              buffer_index |-> terminals[t].buffer_index]
          BY <1>1 DEF Coordinate
        <4>2. QED
          BY <1>5, <2>1, <3>1, <4>1 DEF TypedOn, Saved
      <3>2. CASE u = cur_term_id
        BY <1>1, <1>5, <2>1, <3>2 DEF TypedOn
      <3>3. CASE u # t /\ u # cur_term_id
        BY <1>1, <1>5, <2>1, <3>3 DEF TypedOn
      <3>4. QED
        BY <3>1, <3>2, <3>3
    <2>3. Follows(TypedOn(u), line_start[u], drawn[u])
      BY DEF LineInv
    <2>4. \/ line_start'[u] = line_start[u] /\ drawn'[u] = drawn[u]
          \/ line_start'[u] = {} /\ drawn'[u] = {}
      BY <2>1, KeptOrEnded
    <2>5. QED
      BY <2>2, <2>3, <2>4, NoLineFollows
  <1>6. CASE Execute \/ Halt \/ Kill
    BY <1>4, <1>6 DEF Execute, Halt, Kill, ScreenUnchanged
  <1>7. CASE \E t \in Terminals : ChangeTerminal(t) \/ LaunchTerminal(t)
    BY <1>5, <1>7 DEF ChangeTerminal, LaunchTerminal
  <1>8. CASE \/ \E newline \in BOOLEAN : PutcBegins(newline)
             \/ NewlineHasRow \/ NewlineMovesUp \/ LoadRow \/ StoreRow \/ Column0 \/ LoadColumn
             \/ StoreColumn \/ TestRow \/ CornerMovesUp \/ NotInCorner \/ TestColumn
             \/ LoadWrap \/ StoreWrap
    BY <1>4, <1>8, PutcSteps
  <1>9. QED
    BY <1>2, <1>3, <1>6, <1>7, <1>8 DEF Next

\* On every terminal, until a program prints there, the cursor stands where the line
\* being typed ends and the line's cells hold what was typed, with at most one erased
\* character left, whatever the keys and the screen's size.  (press_other_key,
\* press_bskp, putc, terminal_save, terminal_restore)
THEOREM LineFollowsCursorCorrect == Spec => []LineFollowsCursor
  <1>1. Init => LineInv
    BY NoLineFollows DEF Init, LineInv
  <1>2. TypeOK /\ LineInv => LineFollowsCursor
    <2> SUFFICES ASSUME TypeOK, LineInv, NEW t \in Terminals, NEW first \in line_start[t]
                 PROVE  LET cells == first..(LineEnd(t, first) - 1)
                        IN  /\ NUM_COLS * TypedOn(t).y + TypedOn(t).x = LineEnd(t, first)
                            /\ cells \subseteq drawn[t]
                            /\ drawn[t] \ cells \subseteq {NUM_COLS - 1}
      BY DEF LineFollowsCursor
    <2>1. FollowsFrom(first, TypedOn(t), drawn[t])
      BY DEF LineInv, Follows
    <2>2. first \in Int /\ TypedOn(t).buffer_index \in Int
      BY TypeParts DEF TypedOn, TypeOK, Coordinate
    <2>3. QED
      BY <2>1, <2>2 DEF FollowsFrom, LineEnd
  <1>3. QED
    BY <1>1, <1>2, LineSteps, TypeCorrect, PTL DEF Spec
=============================================================================
