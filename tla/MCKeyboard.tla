---------------------------- MODULE MCKeyboard -----------------------------
(* Instances of Keyboard for TLC.                                           *)
EXTENDS Keyboard

CONSTANT a          \* a character

\* One character is enough: lines, and what is left of older ones in a buffer,
\* differ by their lengths.
MCKeys == {a}

\* Less than a buffer, and more.
MCReadSizes == {1, 3}
=============================================================================
