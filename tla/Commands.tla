------------------------------ MODULE Commands ------------------------------
(***************************************************************************)
(* From the text of a command to the program it starts, and back to its    *)
(* argument: the beginning of execute, getargs (system_call.c), and the    *)
(* lookup in the directory (file_sys_module.c).                            *)
(*                                                                         *)
(* An array on the stack is memory: addresses past its size belong to      *)
(* something else.                                                         *)
(***************************************************************************)
EXTENDS Library

CONSTANTS
    MAX_NAME_SIZE,      \* bytes for a command's name (10)
    MAX_ARG_SIZE,       \* bytes for its argument (100)
    FILE_NAME_SIZE,     \* bytes of a name in the directory (32)
    dir_entries         \* index from 0 -> [name : a sequence, exe : BOOLEAN, size]

ASSUME SizesAssumption ==
    /\ MAX_NAME_SIZE \in Nat \ {0} /\ MAX_ARG_SIZE \in Nat \ {0}
    /\ FILE_NAME_SIZE \in Nat \ {0}

SPACE == 9

MIN_READ_ELF_SIZE == 4

\* A name is what stands before its NUL, if there is one; an executable file
\* begins with four bytes of magic.
ASSUME DirectoryAssumption ==
    /\ DOMAIN dir_entries \subseteq Nat
    /\ \A i \in DOMAIN dir_entries :
          /\ dir_entries[i].name \in Seq(Nat \ {NUL})
          /\ Len(dir_entries[i].name) <= FILE_NAME_SIZE
          /\ dir_entries[i].exe \in BOOLEAN /\ dir_entries[i].size \in Nat
          /\ dir_entries[i].exe => dir_entries[i].size >= MIN_READ_ELF_SIZE

\* A string in memory, with something behind it.
CString(s, behind, size) ==
    [i \in 0..(size - 1) |-> IF i < Len(s) THEN s[i + 1] ELSE IF i = Len(s) THEN NUL ELSE behind]

\* A name in the directory: NULs fill it up, and one that fills it has none.
FileName(entry) ==
    [i \in 0..(FILE_NAME_SIZE - 1) |-> IF i < Len(entry.name) THEN entry.name[i + 1] ELSE NUL]

\* What execute's loop knows: the part of the command it is in, how far into
\* its word it is, and the words so far.
ParseStart == [in |-> "before", at |-> 0, name |-> <<>>, arg |-> <<>>, stored |-> {}]

\* The character behind a word, where its NUL goes.
EndWord(st, next, array) ==
    [st EXCEPT !.in = next, !.at = 0, !.stored = @ \cup {<<array, st.at>>}]

NameChar(st, c) ==
    [st EXCEPT !.in = "name", !.at = @ + 1, !.name = Append(@, c),
               !.stored = @ \cup {<<"name", st.at>>}]

ArgChar(st, c) ==
    [st EXCEPT !.in = "arg", !.at = @ + 1, !.arg = Append(@, c),
               !.stored = @ \cup {<<"arg", st.at>>}]

ParseToEnd(st, c) ==
    CASE st.in = "before" -> IF c = SPACE THEN st ELSE NameChar(st, c)
      [] st.in = "name" -> IF c = SPACE THEN EndWord(st, "between", "name") ELSE NameChar(st, c)
      [] st.in \in {"between", "arg"} -> IF st.in = "between" /\ c = SPACE THEN st ELSE ArgChar(st, c)

\* One character of the command.  The loop ends behind the argument.
ParseChar(st, c) ==
    CASE st.in = "before" -> IF c = SPACE THEN st ELSE NameChar(st, c)
      [] st.in = "name" -> IF c = SPACE THEN EndWord(st, "between", "name") ELSE NameChar(st, c)
      [] st.in = "between" -> IF c = SPACE THEN st ELSE ArgChar(st, c)
      [] st.in = "arg" -> IF c = SPACE THEN EndWord(st, "behind", "arg") ELSE ArgChar(st, c)
      [] st.in = "behind" -> st

Parse(command) ==
    LET after[i \in 0..Len(command)] ==
          IF i = 0 THEN ParseStart ELSE ParseChar(after[i - 1], command[i])
    IN  after[Len(command)]

\* read_dentry_by_name: the index of the first entry of that name, or -1.
Matching(fname) ==
    {i \in DOMAIN dir_entries : strncmp(fname, FileName(dir_entries[i]), FILE_NAME_SIZE) = 0}

DentryByName(fname) == IF Matching(fname) = {} THEN -1 ELSE Min(Matching(fname))

\* Can the buffer hold the ELF magic after the first read_data?  A file of
\* fewer bytes leaves what was on the stack.
MagicOutcomes(entry) == IF entry.size < MIN_READ_ELF_SIZE THEN BOOLEAN ELSE {entry.exe}

\* What execute may do with a command: refuse it, start a file with an argument in
\* its control block, or touch the stack behind one of its arrays, after which the
\* code says nothing.
Refused == [started |-> FALSE, overrun |-> FALSE, entry |-> -1, arg |-> <<>>]

Overrun == [Refused EXCEPT !.overrun = TRUE]

Started(entry, arg) == [started |-> TRUE, overrun |-> FALSE, entry |-> entry, arg |-> arg]

ArraySize(array) == IF array = "name" THEN MAX_NAME_SIZE ELSE MAX_ARG_SIZE

\* The loop has stored behind an array, or has filled the name's, so that the
\* lookup reads on behind it.
LeavesArrays(parsed) ==
    \/ \E byte \in parsed.stored : byte[2] >= ArraySize(byte[1])
    \/ Len(parsed.name) >= MAX_NAME_SIZE

\* strcpy goes on behind an argument that fills its array.
StartOutcome(entry, arg) == IF Len(arg) >= MAX_ARG_SIZE THEN Overrun ELSE Started(entry, arg)

ExecuteOutcomes(command) ==
    LET parsed == Parse(command)
        entry == DentryByName(CString(parsed.name, NUL, FILE_NAME_SIZE + 1))
    IN  IF LeavesArrays(parsed) THEN {Overrun}
        ELSE IF entry = -1 THEN {Refused}
        ELSE {IF magic THEN StartOutcome(entry, parsed.arg) ELSE Refused :
                 magic \in MagicOutcomes(dir_entries[entry])}

\* getargs: -1 for a buffer shorter than the argument, else the buffer.
getargs(arg_buff, buf, nbytes) ==
    IF nbytes < strlen(arg_buff) THEN [val |-> -1, buf |-> buf]
                                 ELSE [val |-> 0, buf |-> strcpy(buf, arg_buff)]
=============================================================================
