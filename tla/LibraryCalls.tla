---------------------------- MODULE LibraryCalls ----------------------------
(***************************************************************************)
(* One call of a function of Library or Commands: the arguments are chosen *)
(* first, then the function returns.  What it returns is compared with     *)
(* definitions that do not follow the code.                                *)
(***************************************************************************)
EXTENDS Commands

CONSTANTS
    SIZE,           \* bytes of memory
    Letters,        \* characters other than NUL and SPACE, below SPACE
    LENGTH,         \* longest string
    CommandLength,  \* longest command
    Values,         \* numbers printf is given
    Items           \* most conversions in one format

ASSUME BoundsAssumption ==
    /\ SIZE \in Nat /\ LENGTH \in Nat /\ LENGTH < SIZE /\ FILE_NAME_SIZE < SIZE
    /\ CommandLength \in Nat /\ Items \in Nat
    /\ Letters \subseteq 1..(SPACE - 1)
    /\ Values \subseteq 0..(Modulus - 1)

VARIABLES call, result

vars == <<call, result>>

Addresses == 0..(SIZE - 1)

\* Every byte of memory differs, so that each can be told where it ends up.
Memory == [a \in Addresses |-> 10 + a]

BYTE == 5

Strings == BoundedSeq(Letters, LENGTH)

InMemory(s) == CString(s, BYTE, SIZE)

\* The part of the memory functions' arguments that stays in memory.
Blocks ==
    {b \in Addresses \X Addresses \X (0..SIZE) : b[1] + b[3] <= SIZE /\ b[2] + b[3] <= SIZE}

MemoryCalls == [op : {"memcpy", "memmove", "memset", "memset_word"}, args : Blocks]

StringCalls == [op : {"strlen", "strcpy", "strrev"}, args : Strings]

SizedCalls == [op : {"strncpy", "getargs"}, args : Strings \X (0..SIZE)]

StrncmpCalls == [op : {"strncmp"}, args : Strings \X Strings \X (0..LENGTH)]

ItoaCalls == [op : {"itoa"}, args : (0..(Modulus - 1)) \X {2, 8, 10, 16}]

\* A piece of a format, and the value its argument is made from.
Pieces ==
    [text : {<<"A">>, <<"%", "%">>, <<"%", "i">>, <<"%", "c">>, <<"%", "s">>}, value : {0}]
      \cup [text : {<<"%", "x">>, <<"%", "#", "x">>, <<"%", "u">>, <<"%", "d">>, <<"%", "#", "d">>},
            value : Values]

PrintfCalls == [op : {"printf"}, args : BoundedSeq(Pieces, Items)]

ExecuteCalls == [op : {"execute"}, args : BoundedSeq(Letters \cup {SPACE}, CommandLength)]

LookupCalls == [op : {"lookup"}, args : BoundedSeq(Letters, FILE_NAME_SIZE + 1)]

\* The arguments a piece takes.
PieceArguments(piece) ==
    CASE piece.text \in {<<"A">>, <<"%", "%">>, <<"%", "i">>} -> <<>>
      [] piece.text = <<"%", "c">> -> <<"%">>
      [] piece.text = <<"%", "s">> -> << <<"%", "x">> >>
      [] OTHER -> <<piece.value>>

Format(pieces) == FlattenSeq([i \in DOMAIN pieces |-> pieces[i].text])

Arguments(pieces) == FlattenSeq([i \in DOMAIN pieces |-> PieceArguments(pieces[i])])

Running == [at |-> "running"]

Init ==
    /\ \/ call \in MemoryCalls
       \/ call \in StringCalls
       \/ call \in SizedCalls
       \/ call \in StrncmpCalls
       \/ call \in ItoaCalls
       \/ call \in PrintfCalls
       \/ call \in ExecuteCalls
       \/ call \in LookupCalls
    /\ result = Running

Returns(op, val) == call.op = op /\ result' = [at |-> "returned", val |-> val]

Return ==
    LET a == call.args
    IN  /\ result = Running
        /\ \/ Returns("memcpy", memcpy(Memory, a[1], a[2], a[3]))
           \/ Returns("memmove", memmove(Memory, a[1], a[2], a[3]))
           \/ Returns("memset", memset(Memory, a[1], BYTE, a[3]))
           \/ Returns("memset_word", memset_units(Memory, a[1], <<BYTE, BYTE + 1>>, a[3] \div 2))
           \/ Returns("strlen", strlen(InMemory(a)))
           \/ Returns("strcpy", strcpy(Memory, InMemory(a)))
           \/ Returns("strncpy", strncpy(Memory, InMemory(a[1]), a[2]))
           \/ Returns("strncmp", strncmp(InMemory(a[1]), CString(a[2], BYTE + 1, SIZE), a[3]))
           \/ Returns("strrev", strrev(a))
           \/ Returns("itoa", itoa(a[1], a[2]))
           \/ Returns("printf", printf(Format(a), Arguments(a)))
           \/ call.op = "execute" /\ \E outcome \in ExecuteOutcomes(a) : Returns("execute", outcome)
           \/ Returns("lookup", DentryByName(InMemory(a)))
           \/ Returns("getargs", getargs(InMemory(a[1]), Memory, a[2]))
        /\ UNCHANGED call

Spec == Init /\ [][Return]_vars

-----------------------------------------------------------------------------
(* Properties.                                                              *)

Returned(op) == call.op = op /\ result.at = "returned"

\* memcpy, memmove and memset leave exactly what was asked for, at every
\* alignment and length: each byte of the destination is the byte of the source
\* as it was before, or the value, and no other byte changes.  memmove does so
\* however the two blocks overlap, memcpy unless the destination begins inside
\* the source.  (lib.c: memcpy, memmove, memset)
MemoryRoutines ==
    LET d == call.args[1]
        s == call.args[2]
        n == call.args[3]
        After(Byte(_)) ==
            [a \in Addresses |-> IF a \in d..(d + n - 1) THEN Byte(a - d) ELSE Memory[a]]
    IN  /\ Returned("memset") => result.val = After(LAMBDA i : BYTE)
        /\ Returned("memset_word") /\ n % 2 = 0 => result.val = After(LAMBDA i : BYTE + (i % 2))
        /\ Returned("memmove") => result.val = After(LAMBDA i : Memory[s + i])
        /\ Returned("memcpy") /\ d \notin (s + 1)..(s + n - 1) =>
              result.val = After(LAMBDA i : Memory[s + i])

\* The value a numeral stands for.
DigitValue(c) == CHOOSE v \in 0..15 : lookup[v + 1] = c

ValueOf(digits, radix) ==
    LET value[i \in 0..Len(digits)] ==
          IF i = 0 THEN 0 ELSE value[i - 1] * radix + DigitValue(digits[i])
    IN  value[Len(digits)]

\* A numeral of a number: its value, and no zero in front unless it is all.
IsNumeral(digits, value, radix) ==
    /\ digits # <<>>
    /\ \A i \in DOMAIN digits :
          digits[i] \in ToSet(lookup) /\ DigitValue(digits[i]) < radix
    /\ ValueOf(digits, radix) = value
    /\ digits[1] = "0" => Len(digits) = 1

Cut(s, n) == SubSeq(s, 1, Min({n, Len(s)}))

\* The order of the dictionary.
Before(s, t) ==
    \/ Len(s) < Len(t) /\ s = Cut(t, Len(s))
    \/ \E i \in 1..Min({Len(s), Len(t)}) : Cut(s, i - 1) = Cut(t, i - 1) /\ s[i] < t[i]

\* strncmp orders the strings cut to n characters and looks at nothing behind
\* their ends; a copied string reads back as the original and nothing past its
\* size changes; itoa gives the numeral of every number in every radix.
\* (lib.c: strncmp, strcpy, strncpy, strlen, strrev, itoa)
StringRoutines ==
    LET a == call.args
        v == result.val
    IN  /\ Returned("strlen") => v = Len(a)
        /\ Returned("strcpy") => \A i \in Addresses :
              v[i] = IF i <= Len(a) THEN InMemory(a)[i] ELSE Memory[i]
        /\ Returned("strncpy") =>
              /\ \A i \in Addresses : i >= a[2] => v[i] = Memory[i]
              /\ [i \in 1..a[2] |-> v[i - 1]] =
                   Cut(a[1], a[2]) \o [i \in 1..(a[2] - Len(Cut(a[1], a[2]))) |-> NUL]
        /\ Returned("strncmp") =>
              /\ v < 0 <=> Before(Cut(a[1], a[3]), Cut(a[2], a[3]))
              /\ v > 0 <=> Before(Cut(a[2], a[3]), Cut(a[1], a[3]))
        /\ Returned("strrev") => v = Reverse(a)
        /\ Returned("itoa") => IsNumeral(v, a[1], a[2])

\* What a piece of a format should put on the screen.
IsText(text, piece) ==
    LET form == piece.text
        value == piece.value
    IN  /\ form = <<"A">> => text = <<"A">>
        /\ form = <<"%", "%">> => text = <<"%">>
        /\ form = <<"%", "i">> => text = <<>>
        /\ form = <<"%", "c">> => text = <<"%">>
        /\ form = <<"%", "s">> => text = <<"%", "x">>
        /\ form = <<"%", "x">> => IsNumeral(text, value, 16)
        /\ form = <<"%", "#", "x">> =>
              Len(text) = HexDigits /\ ToSet(text) \subseteq ToSet(lookup) /\ ValueOf(text, 16) = value
        /\ form = <<"%", "u">> => IsNumeral(text, value, 10)
        /\ form \in {<<"%", "d">>, <<"%", "#", "d">>} =>
              IF value < Modulus \div 2
                THEN IsNumeral(text, value, 10)
                ELSE text # <<>> /\ text[1] = "-" /\ IsNumeral(Tail(text), Modulus - value, 10)

\* The output can be cut where each piece of the format ends.
CutAt(ends, out, pieces) ==
    /\ ends[0] = 0 /\ ends[Len(pieces)] = Len(out)
    /\ \A i \in DOMAIN pieces :
          ends[i - 1] <= ends[i] /\ IsText(SubSeq(out, ends[i - 1] + 1, ends[i]), pieces[i])

\* Each piece of a format puts its own text on the screen, from its own argument,
\* whatever stands before it: the screen's text can be cut into the pieces' texts.
\* (lib.c: printf)
PrintfPrints ==
    Returned("printf") =>
        LET pieces == call.args
            out == result.val.out
        IN  /\ result.val.esp = <<>>
            /\ \E ends \in [0..Len(pieces) -> 0..Len(out)] : CutAt(ends, out, pieces)

\* The words of a command.
Words(command) ==
    LET starts == {i \in DOMAIN command :
                     command[i] # SPACE /\ (i = 1 \/ command[i - 1] = SPACE)}
        Word(i) == SubSeq(command, i,
                          Max({j \in i..Len(command) : \A k \in i..j : command[k] # SPACE}))
    IN  [n \in 1..Cardinality(starts) |->
            Word(CHOOSE i \in starts : Cardinality({j \in starts : j < i}) = n - 1)]

WordOrNone(words, n) == IF n <= Len(words) THEN words[n] ELSE <<>>

\* The directory's entries of a name, cut to what fits there.
Named(name) == {i \in DOMAIN dir_entries : dir_entries[i].name = Cut(name, FILE_NAME_SIZE)}

\* A command starts a program only if its first word is the name of an executable
\* file, with the second word as argument, however many spaces there are.  execute
\* touches the stack behind its arrays for every command whose first word does not
\* fit with its NUL or whose second is longer than its array, and for no command
\* whose two words both fit.  A file of fewer than four bytes is refused or started
\* as the stack has it.  A name finds the first entry it equals, and getargs gives a
\* program its argument whole or not at all.
\* (system_call.c: execute, getargs; file_sys_module.c: read_dentry_by_name)
CommandsObeyed ==
    LET a == call.args
        v == result.val
    IN  /\ Returned("execute") =>
              LET words == Words(a)
                  name == WordOrNone(words, 1)
                  arg == WordOrNone(words, 2)
              IN  /\ Len(name) >= MAX_NAME_SIZE \/ Len(arg) > MAX_ARG_SIZE => v.overrun
                  /\ Len(name) < MAX_NAME_SIZE /\ Len(arg) < MAX_ARG_SIZE => ~v.overrun
                  /\ v.started =>
                        /\ v.entry = Min(Named(name))
                        /\ v.arg = arg /\ Len(arg) < MAX_ARG_SIZE
                        /\ dir_entries[v.entry].exe \/ dir_entries[v.entry].size < MIN_READ_ELF_SIZE
                  /\ ~v.started /\ ~v.overrun =>
                        \/ Named(name) = {}
                        \/ ~dir_entries[Min(Named(name))].exe
        /\ Returned("lookup") => v = IF Named(a) = {} THEN -1 ELSE Min(Named(a))
        /\ Returned("getargs") =>
              IF a[2] < Len(a[1])
                THEN v = [val |-> -1, buf |-> Memory]
                ELSE v.val = 0 /\ strlen(v.buf) = Len(a[1])
                       /\ \A i \in DOMAIN a[1] : v.buf[i - 1] = a[1][i]
=============================================================================
