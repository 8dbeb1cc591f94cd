------------------------------- MODULE MCRtc --------------------------------
(* Instances of Rtc for TLC.                                                *)
EXTENDS Rtc

\* 1024 and 2 are the ends of the range, 3 is not a power of two, 2048 is too
\* large, and 1 is the power of two the switch forgets.
MCRequests == {1, 2, 3, 1024, 2048}

\* 0 turns periodic interrupts off.
MCGarbage == {0, 9}

\* A request for which the switch has a case.
MCPlainRequests == {2, 1024}
=============================================================================
