---------------------------- MODULE MCInterrupts ----------------------------
(* Instances of Interrupts for TLC.                                         *)
EXTENDS Interrupts

CONSTANTS left_shift, right_shift, ctrl, alt, arrow     \* keys

MCShiftKeys == {left_shift, right_shift}
MCCtrlKeys == {ctrl}
MCAltKeys == {alt}
MCExtendedKeys == {arrow}
=============================================================================
