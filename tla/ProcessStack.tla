---------------------------- MODULE ProcessStack ----------------------------
(***************************************************************************)
(* What chapOS promises about processes, without its data structures.      *)
(*                                                                         *)
(* There is no scheduler: the processes form one stack.  The top process   *)
(* runs; every other one is suspended, either because it asked for a       *)
(* child with the execute system call, or because a key stroke started a   *)
(* new terminal's shell on top of it.  A process that asked is answered    *)
(* exactly once, with the status its child halted with or with -1; one     *)
(* that was merely interrupted is told nothing.  The bottom shell cannot   *)
(* leave: a fresh shell takes its place.                                   *)
(***************************************************************************)
EXTENDS Integers, Sequences

CONSTANTS
    MaxDepth,       \* how many processes there can be
    Programs,       \* names of executable files
    Shell,          \* the program every terminal runs first
    Statuses        \* the values programs pass to halt

VARIABLE procs      \* the stack of processes, bottom first

\* A process that has just started: it waits for nothing and knows nothing.
Fresh(prog) == [prog |-> prog, asked |-> FALSE, answer |-> {}]

\* The status a parent receives for halt(status): the low byte, except that 1
\* is reserved for a program killed by an exception and becomes 256.
ReturnValue(status) == IF status % 256 = 1 THEN 256 ELSE status % 256

Depth == Len(procs)

Top == procs[Depth]

\* The process that takes over when the top one leaves.
Resumed(p, status) ==
    IF p.asked THEN [p EXCEPT !.asked = FALSE, !.answer = {ReturnValue(status)}]
               ELSE p

\* The lowest n processes of the stack, p in place of the topmost of them.
Upto(n, p) == [i \in 1..n |-> IF i = n THEN p ELSE procs[i]]

Init == procs = <<Fresh(Shell)>>

\* The running process asks for a child and gets it.
Execute(prog) ==
    /\ Top.answer = {}
    /\ Depth < MaxDepth
    /\ procs' = Append(Upto(Depth, [Top EXCEPT !.asked = TRUE]), Fresh(prog))

\* The running process asks for a child and is refused.
Refuse ==
    /\ Top.answer = {}
    /\ procs' = Upto(Depth, [Top EXCEPT !.answer = {-1}])

\* The running process continues with the answer it was given.
Take ==
    /\ Top.answer # {}
    /\ procs' = Upto(Depth, [Top EXCEPT !.answer = {}])

\* The user opens another terminal: its shell runs on top of everything.
OpenTerminal ==
    /\ Depth < MaxDepth
    /\ procs' = Append(procs, Fresh(Shell))

\* The running process leaves and the one below it continues.
Halt(status) ==
    /\ Depth > 1
    /\ procs' = Upto(Depth - 1, Resumed(procs[Depth - 1], status))

\* The bottom process leaves.
Restart ==
    /\ Depth = 1
    /\ procs' = <<Fresh(Shell)>>

Next ==
    \/ \E prog \in Programs : Execute(prog)
    \/ Refuse
    \/ Take
    \/ OpenTerminal
    \/ \E status \in Statuses : Halt(status)
    \/ Restart

Spec == Init /\ [][Next]_procs
=============================================================================
