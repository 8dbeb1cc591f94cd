------------------------------ MODULE Library -------------------------------
(***************************************************************************)
(* The string and memory functions of the kernel and its printf (lib.c),   *)
(* as operators: what each loop leaves, for given arguments.               *)
(*                                                                         *)
(* Memory is a function from addresses to bytes; a string is memory with a *)
(* NUL in it.  Characters of memory are numbers, those printf puts on the  *)
(* screen are members of Chars.  A number has WIDTH bits.                  *)
(***************************************************************************)
EXTENDS Integers, Sequences, SequencesExt

CONSTANTS
    WIDTH,      \* bits of a number, a multiple of 4 (32)
    LONG        \* bytes a string instruction on long words moves (4)

ASSUME WidthAssumption == WIDTH \in Nat \ {0} /\ WIDTH % 4 = 0 /\ LONG \in Nat \ {0}

NUL == 0

HexDigits == WIDTH \div 4

\* 2^WIDTH.
Modulus ==
    LET power[i \in 0..HexDigits] == IF i = 0 THEN 1 ELSE 16 * power[i - 1]
    IN  power[HexDigits]

-----------------------------------------------------------------------------
(* Memory.                                                                  *)

\* One movsb or movsl: size bytes are loaded, then stored.
MoveUnit(mem, d, s, size) ==
    [a \in DOMAIN mem |-> IF a \in d..(d + size - 1) THEN mem[s + (a - d)] ELSE mem[a]]

\* rep movs, count units upwards.
RepMovs(mem, d, s, size, count) ==
    LET after[i \in 0..count] ==
          IF i = 0 THEN mem
          ELSE MoveUnit(after[i - 1], d + size * (i - 1), s + size * (i - 1), size)
    IN  after[count]

\* rep movsb with the direction flag set: d and s are the last bytes.
RepMovsDown(mem, d, s, count) ==
    LET after[i \in 0..count] ==
          IF i = 0 THEN mem ELSE MoveUnit(after[i - 1], d - (i - 1), s - (i - 1), 1)
    IN  after[count]

\* rep stos: count units of the value's bytes.
RepStos(mem, d, unit, count) ==
    [a \in DOMAIN mem |-> IF a \in d..(d + Len(unit) * count - 1)
                            THEN unit[((a - d) % Len(unit)) + 1] ELSE mem[a]]

\* The bytes before the first aligned one, at most n.
ToAligned(d, n) == Min({n, (LONG - (d % LONG)) % LONG})

memset(mem, d, c, n) ==
    LET head == ToAligned(d, n)
        longs == (n - head) \div LONG
        tail == d + head + LONG * longs
        aligned == RepStos(mem, d, <<c>>, head)
        body == RepStos(aligned, d + head, [i \in 1..LONG |-> c], longs)
    IN  RepStos(body, tail, <<c>>, (n - head) % LONG)

\* memset_word and memset_dword store n units, whatever the alignment.
memset_units(mem, d, unit, n) == RepStos(mem, d, unit, n)

memcpy(mem, d, s, n) ==
    LET head == ToAligned(d, n)
        longs == (n - head) \div LONG
        done == head + LONG * longs
        aligned == RepMovs(mem, d, s, 1, head)
        body == RepMovs(aligned, d + head, s + head, LONG, longs)
    IN  RepMovs(body, d + done, s + done, 1, (n - head) % LONG)

memmove_up(mem, d, s, n) == RepMovs(mem, d, s, 1, n)

memmove(mem, d, s, n) ==
    IF s >= d THEN RepMovs(mem, d, s, 1, n)
              ELSE RepMovsDown(mem, d + n - 1, s + n - 1, n)

-----------------------------------------------------------------------------
(* Strings.                                                                 *)

strlen(s) == Min({i \in DOMAIN s : s[i] = NUL})

strcpy(dest, s) ==
    [i \in DOMAIN dest |-> IF i <= strlen(s) THEN s[i] ELSE dest[i]]

\* Up to n bytes of the string, then NULs up to n.
strncpy(dest, s, n) ==
    [i \in DOMAIN dest |->
        IF i >= n THEN dest[i] ELSE IF i < strlen(s) THEN s[i] ELSE NUL]

strncmp(s1, s2, n) ==
    LET from[i \in 0..n] ==
          IF i = n THEN 0
          ELSE IF s1[i] # s2[i] \/ s1[i] = NUL THEN s1[i] - s2[i] ELSE from[i + 1]
    IN  from[0]

\* The loop of strrev, on a string given as a sequence: ends are swapped until
\* they meet.
strrev(s) ==
    LET swap(t, beg) == [t EXCEPT ![beg] = t[Len(s) + 1 - beg], ![Len(s) + 1 - beg] = t[beg]]
        after[beg \in 0..(Len(s) \div 2)] == IF beg = 0 THEN s ELSE swap(after[beg - 1], beg)
    IN  after[Len(s) \div 2]

lookup == <<"0", "1", "2", "3", "4", "5", "6", "7", "8", "9", "A", "B", "C", "D", "E", "F">>

\* The digits of a number, lowest first.
LowestFirst(value, radix) ==
    LET digits[v \in 0..value] ==
          IF v = 0 THEN <<>> ELSE <<lookup[(v % radix) + 1]>> \o digits[v \div radix]
    IN  digits[value]

itoa_nozero(value, radix) == strrev(LowestFirst(value, radix))

itoa(value, radix) ==
    IF value = 0 THEN <<"0">> ELSE strrev(LowestFirst(value, radix))

-----------------------------------------------------------------------------
(* printf                                                                   *)

PaddedOnce(digits) == <<"0">> \o digits

\* %#x: the digits, with zeros before them up to the width of a number.
Padded(digits) == [i \in 1..(HexDigits - Len(digits)) |-> "0"] \o digits

\* %d: a minus and the negated number, which wraps around.
SignedDigits(value) ==
    IF value >= Modulus \div 2
      THEN <<"-">> \o itoa((Modulus - value) % Modulus, 10)
      ELSE itoa(value, 10)

\* Conversions that take an argument, and what they put on the screen.
Taking == {"x", "u", "d", "c", "s"}

Converted(conv, alternate, arg) ==
    CASE conv = "x" -> IF alternate THEN Padded(itoa(arg, 16)) ELSE itoa(arg, 16)
      [] conv = "u" -> itoa(arg, 10)
      [] conv = "d" -> SignedDigits(arg)
      [] conv = "c" -> <<arg>>
      [] conv = "s" -> arg

\* printf's state: what it has put on the screen, the arguments left, and
\* whether it is behind a % or a %#.
PrintStart(args) == [out |-> <<>>, esp |-> args, at |-> "text"]

PrintChar(st, c) ==
    CASE st.at = "text" /\ c # "%" -> [st EXCEPT !.out = Append(@, c)]
      [] st.at = "text" /\ c = "%" -> [st EXCEPT !.at = "percent"]
      [] st.at # "text" /\ c = "%" -> [st EXCEPT !.out = Append(@, "%"), !.at = "text"]
      [] st.at # "text" /\ c = "#" -> [st EXCEPT !.at = "alternate"]
      [] st.at # "text" /\ c \in Taking ->
           [out |-> st.out \o Converted(c, st.at = "alternate", Head(st.esp)),
            esp |-> Tail(st.esp),
            at |-> "text"]
      [] OTHER -> [st EXCEPT !.at = "text"]

\* The whole format, which does not end behind a % (printf would read on).
printf(format, args) ==
    LET after[i \in 0..Len(format)] ==
          IF i = 0 THEN PrintStart(args) ELSE PrintChar(after[i - 1], format[i])
    IN  after[Len(format)]
=============================================================================
