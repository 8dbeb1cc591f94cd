----------------------------- MODULE Scancodes -----------------------------
(***************************************************************************)
(* What the keyboard handler makes of the codes of single keys             *)
(* (keyboard.c): Caps Lock, Shift, Ctrl and Alt, and the table from codes  *)
(* to characters.  The handler runs with interrupts disabled, so a code is *)
(* one step.  Keys are the physical keys, of which both Shifts have the    *)
(* same effect; what a code does besides (characters, the handler's way    *)
(* out) is left to the modules that use this one.                          *)
(*                                                                         *)
(* The handler ignores the byte E0 and takes the one after it for a code   *)
(* of its own.  The right Ctrl and Alt, whose codes are those of the left  *)
(* ones after E0, and Pause, which sends the codes of Ctrl, are therefore  *)
(* among CtrlKeys and AltKeys.  ExtendedKeys are those that add codes of a *)
(* Shift key to their own, after E0: PrtSc, and the arrows and their       *)
(* neighbours.  Without Shift (the latter with Num Lock) they press one    *)
(* when pressed and release it when released; with Shift held (the latter  *)
(* without Num Lock) they release it and press it again.                   *)
(***************************************************************************)
EXTENDS Integers, FiniteSets

CONSTANTS ShiftKeys, CtrlKeys, AltKeys, ExtendedKeys   \* the physical keys of each kind

ASSUME ModifierKeysAssumption ==
    /\ ShiftKeys \cap CtrlKeys = {}
    /\ ShiftKeys \cap AltKeys = {}
    /\ CtrlKeys \cap AltKeys = {}
    /\ ExtendedKeys \cap (ShiftKeys \cup CtrlKeys \cup AltKeys) = {}

VARIABLES
    keyboard_mode,  \* row of scancode_array
    ctrl_flag,      \* is Ctrl in effect
    alt_flag,       \* is Alt in effect
    held,           \* history: the keys pressed and not released since; of the
                    \* extended ones, those that have pressed a Shift
    lifting,        \* history: the extended keys that have released a Shift held
    caps,           \* history: has Caps Lock been pressed an odd number of times
    muddled         \* history: have codes of Shift keys overlapped, see below

scancodeVars == <<keyboard_mode, ctrl_flag, alt_flag, held, lifting, caps, muddled>>

PRESS_NOTHING == 0
PRESS_SHIFT_ONLY == 1
PRESS_CAP_ONLY == 2
PRESS_SHIFT_CAP == 3
PRESS_CTRL == 4
PRESS_ALT == 5

Modes == {PRESS_NOTHING, PRESS_SHIFT_ONLY, PRESS_CAP_ONLY, PRESS_SHIFT_CAP}

ScancodesInit ==
    /\ keyboard_mode = PRESS_NOTHING
    /\ ctrl_flag = PRESS_NOTHING
    /\ alt_flag = PRESS_NOTHING
    /\ held = {}
    /\ lifting = {}
    /\ caps = FALSE
    /\ muddled = FALSE

-----------------------------------------------------------------------------
(* The modifier keys.                                                       *)

CapsEndsShift(mode) ==
    CASE mode = PRESS_CAP_ONLY   -> PRESS_NOTHING
      [] mode = PRESS_SHIFT_ONLY -> PRESS_CAP_ONLY
      [] mode = PRESS_SHIFT_CAP  -> PRESS_NOTHING
      [] OTHER                   -> PRESS_CAP_ONLY

AfterCaps(mode) ==
    CASE mode = PRESS_CAP_ONLY   -> PRESS_NOTHING
      [] mode = PRESS_SHIFT_ONLY -> PRESS_SHIFT_CAP
      [] mode = PRESS_SHIFT_CAP  -> PRESS_SHIFT_ONLY
      [] OTHER                   -> PRESS_CAP_ONLY

AfterShiftDown(mode) ==
    IF mode = PRESS_CAP_ONLY THEN PRESS_SHIFT_CAP ELSE PRESS_SHIFT_ONLY

ShiftOutlivesCaps(mode) ==
    IF mode = PRESS_SHIFT_ONLY THEN PRESS_NOTHING ELSE mode

AfterShiftUp(mode) ==
    IF mode = PRESS_SHIFT_CAP THEN PRESS_CAP_ONLY ELSE PRESS_NOTHING

ShiftHeld == held \cap ShiftKeys # {}

\* The keys that hold a Shift down for the handler.
Shifting == held \cap (ShiftKeys \cup ExtendedKeys)

Down(k) == held' = held \cup {k}

Up(k) == held' = held \ {k}

\* press_caps
PressCaps ==
    /\ keyboard_mode' = AfterCaps(keyboard_mode)
    /\ caps' = ~caps
    /\ UNCHANGED <<ctrl_flag, alt_flag, held, lifting, muddled>>

\* press_shift; a key that is held down repeats its code.  Codes overlap when
\* one comes while a Shift is held and Caps Lock is on, or while one is lifted.
PressShift(k) ==
    /\ keyboard_mode' = AfterShiftDown(keyboard_mode)
    /\ Down(k)
    /\ muddled' = (muddled \/ (caps /\ Shifting # {}) \/ lifting # {})
    /\ UNCHANGED <<ctrl_flag, alt_flag, lifting, caps>>

\* unpress_shift; also of a key pressed before the machine was started.  Codes
\* overlap unless it is the only Shift that was held, and not lifted.
UnpressShift(k) ==
    /\ keyboard_mode' = AfterShiftUp(keyboard_mode)
    /\ Up(k)
    /\ muddled' = (muddled \/ Shifting # {k} \/ lifting # {})
    /\ UNCHANGED <<ctrl_flag, alt_flag, lifting, caps>>

\* unpress_shift by an extended key that is pressed while Shift is held; it releases
\* every Shift that is, and their codes overlap.
LiftShift(k) ==
    /\ ShiftHeld
    /\ keyboard_mode' = AfterShiftUp(keyboard_mode)
    /\ lifting' = lifting \cup {k}
    /\ muddled' = (muddled \/ lifting # {})
    /\ UNCHANGED <<ctrl_flag, alt_flag, held, caps>>

\* press_shift by an extended key that is released, unless Shift was before it.
LowerShift(k) ==
    /\ k \in lifting
    /\ keyboard_mode' = IF ShiftHeld THEN AfterShiftDown(keyboard_mode) ELSE keyboard_mode
    /\ lifting' = lifting \ {k}
    /\ UNCHANGED <<ctrl_flag, alt_flag, held, caps, muddled>>

\* set_ctrl_flag
CtrlDown(k) ==
    /\ ctrl_flag' = PRESS_CTRL
    /\ Down(k)
    /\ UNCHANGED <<keyboard_mode, alt_flag, lifting, caps, muddled>>

CtrlUp(k) ==
    /\ ctrl_flag' = PRESS_NOTHING
    /\ Up(k)
    /\ UNCHANGED <<keyboard_mode, alt_flag, lifting, caps, muddled>>

\* set_alt_flag
AltDown(k) ==
    /\ alt_flag' = PRESS_ALT
    /\ Down(k)
    /\ UNCHANGED <<keyboard_mode, ctrl_flag, lifting, caps, muddled>>

AltUp(k) ==
    /\ alt_flag' = PRESS_NOTHING
    /\ Up(k)
    /\ UNCHANGED <<keyboard_mode, ctrl_flag, lifting, caps, muddled>>

ModifierKey ==
    \/ PressCaps
    \/ \E k \in ShiftKeys : PressShift(k) \/ UnpressShift(k)
    \/ \E k \in ExtendedKeys :
          \/ ~ShiftHeld /\ PressShift(k)
          \/ k \in held /\ UnpressShift(k)
          \/ LiftShift(k)
          \/ LowerShift(k)
    \/ \E k \in CtrlKeys : CtrlDown(k) \/ CtrlUp(k)
    \/ \E k \in AltKeys : AltDown(k) \/ AltUp(k)

-----------------------------------------------------------------------------
(* Characters.  A key bears a letter, two symbols, one symbol, or none.     *)

KeyClasses == {"letter", "symbol", "fixed", "none"}

Letter(capital) == IF capital THEN "upper" ELSE "lower"

Symbol(upper) == IF upper THEN "shifted" ELSE "plain"

scancode_array(mode, class) ==
    CASE class = "letter" -> Letter(mode \in {PRESS_SHIFT_ONLY, PRESS_CAP_ONLY})
      [] class = "symbol" -> Symbol(mode \in {PRESS_SHIFT_ONLY, PRESS_SHIFT_CAP})
      [] class = "fixed"  -> "same"
      [] OTHER            -> "null"

-----------------------------------------------------------------------------
(* Properties.                                                              *)

ScancodesTypeOK ==
    /\ keyboard_mode \in Modes
    /\ ctrl_flag \in {PRESS_NOTHING, PRESS_CTRL}
    /\ alt_flag \in {PRESS_NOTHING, PRESS_ALT}
    /\ held \subseteq ShiftKeys \cup CtrlKeys \cup AltKeys \cup ExtendedKeys
    /\ lifting \subseteq ExtendedKeys
    /\ caps \in BOOLEAN
    /\ muddled \in BOOLEAN

\* A modifier is in effect only while one of its keys is held, in whatever order
\* the codes of several of them come, and whatever program they launch or end.  A
\* key that brings a Shift of its own is one of Shift's while it is held:
\* keyboard.c:568 drops the byte E0 before the Shift's code and nothing else.
\* (press_caps, press_shift, unpress_shift, set_ctrl_flag, set_alt_flag)
NoModifierStuck ==
    /\ keyboard_mode \in {PRESS_SHIFT_ONLY, PRESS_SHIFT_CAP} => Shifting # {}
    /\ ctrl_flag = PRESS_CTRL => held \cap CtrlKeys # {}
    /\ alt_flag = PRESS_ALT => held \cap AltKeys # {}

\* Every key gives the character its user expects: a capital letter if one of
\* Shift and Caps Lock is on and not both, the upper symbol if Shift is; as long
\* as codes of Shift keys have not overlapped, and while no extended key holds or
\* lifts a Shift: it gives back what it found.  (the four rows of scancode_array,
\* press_caps, press_shift, unpress_shift)
CharactersFollowKeys ==
    ~muddled /\ held \cap ExtendedKeys = {} /\ lifting = {} =>
        \A class \in KeyClasses :
            scancode_array(keyboard_mode, class) =
                CASE class = "letter" -> Letter(ShiftHeld # caps)
                  [] class = "symbol" -> Symbol(ShiftHeld)
                  [] class = "fixed"  -> "same"
                  [] class = "none"   -> "null"
=============================================================================
