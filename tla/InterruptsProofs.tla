-------------------------- MODULE InterruptsProofs --------------------------
(***************************************************************************)
(* Proofs about modules Interrupts and Scancodes: first the modifier keys, *)
(* which no other step touches, then the chain of activities together with *)
(* the controllers.                                                        *)
(***************************************************************************)
EXTENDS Interrupts, TLAPS, SequenceTheorems, FiniteSetTheorems, WellFoundedInduction

-----------------------------------------------------------------------------
(* The modifier keys.                                                       *)

\* The mode that Shift and Caps Lock call for.
ModeOf(shift, lock) ==
    IF shift THEN IF lock THEN PRESS_SHIFT_CAP ELSE PRESS_SHIFT_ONLY
             ELSE IF lock THEN PRESS_CAP_ONLY ELSE PRESS_NOTHING

KeysInv ==
    /\ ScancodesTypeOK
    /\ NoModifierStuck
    /\ ~muddled => IF lifting = {} THEN keyboard_mode = ModeOf(Shifting # {}, caps)
                   ELSE /\ ShiftHeld /\ \E k \in ExtendedKeys : lifting = {k}
                        /\ keyboard_mode = ModeOf(FALSE, caps)

LEMMA InitKeysInv == ScancodesInit => KeysInv
  <1> USE DEF Modes, PRESS_NOTHING, PRESS_SHIFT_ONLY, PRESS_CAP_ONLY, PRESS_SHIFT_CAP,
              PRESS_CTRL, PRESS_ALT
  <1> SUFFICES ASSUME ScancodesInit PROVE KeysInv
    OBVIOUS
  <1>1. Shifting = {} /\ lifting = {}
    BY DEF ScancodesInit, Shifting
  <1>2. ScancodesTypeOK
    BY DEF ScancodesInit, ScancodesTypeOK
  <1>3. NoModifierStuck
    BY DEF ScancodesInit, NoModifierStuck
  <1>4. keyboard_mode = ModeOf(Shifting # {}, caps)
    BY <1>1 DEF ScancodesInit, ModeOf
  <1>5. QED
    BY <1>1, <1>2, <1>3, <1>4 DEF KeysInv

\* The Shift keys stay as they are.
LEMMA SameShifts ==
    ASSUME held' \cap (ShiftKeys \cup ExtendedKeys) = held \cap (ShiftKeys \cup ExtendedKeys)
    PROVE  Shifting' = Shifting /\ ShiftHeld' = ShiftHeld
  <1>1. held' \cap ShiftKeys = held \cap ShiftKeys
    OBVIOUS
  <1>2. QED
    BY <1>1 DEF Shifting, ShiftHeld

LEMMA ModifierKeyKeepsKeysInv == ASSUME KeysInv, ModifierKey PROVE KeysInv'
  <1> USE DEF Modes, PRESS_NOTHING, PRESS_SHIFT_ONLY, PRESS_CAP_ONLY, PRESS_SHIFT_CAP,
              PRESS_CTRL, PRESS_ALT
  <1>1. CASE PressCaps
    <2>1. UNCHANGED <<held, lifting, muddled, ctrl_flag, alt_flag>> /\ caps' = ~caps
      BY <1>1 DEF PressCaps
    <2>2. ShiftHeld' = ShiftHeld /\ Shifting' = Shifting
      BY <2>1 DEF ShiftHeld, Shifting
    <2>3. \A shift \in BOOLEAN : keyboard_mode = ModeOf(shift, caps) =>
                                  keyboard_mode' = ModeOf(shift, ~caps)
      BY <1>1 DEF PressCaps, AfterCaps, ModeOf
    <2>4. ScancodesTypeOK' /\ NoModifierStuck'
      BY <1>1, <2>1, <2>2
      DEF PressCaps, AfterCaps, KeysInv, ScancodesTypeOK, NoModifierStuck
    <2>5. QED
      BY <2>1, <2>2, <2>3, <2>4 DEF KeysInv
  <1>2. ASSUME NEW k \in ShiftKeys \cup ExtendedKeys, PressShift(k)
        PROVE  KeysInv'
    <2>1. /\ held' = held \cup {k} /\ UNCHANGED <<caps, lifting, ctrl_flag, alt_flag>>
          /\ keyboard_mode' = AfterShiftDown(keyboard_mode)
          /\ muddled' = (muddled \/ (caps /\ Shifting # {}) \/ lifting # {})
      BY <1>2 DEF PressShift, Down
    <2>2. Shifting' # {}
      BY <2>1 DEF Shifting
    <2>3. ~muddled' => lifting' = {} /\ keyboard_mode' = ModeOf(TRUE, caps)
      BY <2>1 DEF AfterShiftDown, KeysInv, ModeOf, ScancodesTypeOK
    <2>4. ScancodesTypeOK'
      BY <2>1 DEF AfterShiftDown, KeysInv, ScancodesTypeOK
    <2>5. NoModifierStuck'
      BY <2>1, <2>2 DEF KeysInv, NoModifierStuck
    <2>6. QED
      BY <2>1, <2>2, <2>3, <2>4, <2>5 DEF KeysInv
  <1>3. ASSUME NEW k \in ShiftKeys \cup ExtendedKeys, UnpressShift(k)
        PROVE  KeysInv'
    <2>1. /\ held' = held \ {k} /\ UNCHANGED <<caps, lifting, ctrl_flag, alt_flag>>
          /\ keyboard_mode' = AfterShiftUp(keyboard_mode)
          /\ muddled' = (muddled \/ Shifting # {k} \/ lifting # {})
      BY <1>3 DEF UnpressShift, Up
    <2>2. ~muddled' => ~muddled /\ lifting = {} /\ Shifting # {} /\ Shifting' = {}
      BY <2>1 DEF Shifting
    <2>3. ~muddled' => keyboard_mode' = ModeOf(FALSE, caps)
      BY <2>1, <2>2 DEF AfterShiftUp, KeysInv, ModeOf, ScancodesTypeOK
    <2>4. ScancodesTypeOK'
      BY <2>1 DEF AfterShiftUp, KeysInv, ScancodesTypeOK
    <2>5. held' \cap CtrlKeys = held \cap CtrlKeys /\ held' \cap AltKeys = held \cap AltKeys
      BY <2>1, ModifierKeysAssumption
    <2>6. NoModifierStuck'
      BY <2>1, <2>5 DEF AfterShiftUp, KeysInv, NoModifierStuck
    <2>7. QED
      BY <2>1, <2>2, <2>3, <2>4, <2>6 DEF KeysInv, ModeOf
  <1>4. ASSUME NEW k \in ExtendedKeys, LiftShift(k)
        PROVE  KeysInv'
    <2>1. /\ UNCHANGED <<held, caps, ctrl_flag, alt_flag>>
          /\ ShiftHeld
          /\ keyboard_mode' = AfterShiftUp(keyboard_mode)
          /\ lifting' = lifting \cup {k}
          /\ muddled' = (muddled \/ lifting # {})
      BY <1>4 DEF LiftShift
    <2>2. ShiftHeld' /\ Shifting # {}
      BY <2>1 DEF ShiftHeld, Shifting
    <2>3. ~muddled' => keyboard_mode' = ModeOf(FALSE, caps) /\ lifting' = {k}
      <3>1. ~muddled' => ~muddled /\ lifting = {}
        BY <2>1
      <3>2. ~muddled' => keyboard_mode = ModeOf(TRUE, caps)
        BY <2>2, <3>1 DEF KeysInv
      <3>3. QED
        BY <2>1, <3>1, <3>2 DEF AfterShiftUp, ModeOf
    <2>4. ScancodesTypeOK' /\ NoModifierStuck'
      BY <2>1 DEF AfterShiftUp, KeysInv, ScancodesTypeOK, NoModifierStuck
    <2>5. QED
      BY <2>1, <2>2, <2>3, <2>4 DEF KeysInv
  <1>5. ASSUME NEW k \in ExtendedKeys, LowerShift(k)
        PROVE  KeysInv'
    <2>1. /\ UNCHANGED <<held, caps, ctrl_flag, alt_flag, muddled>>
          /\ k \in lifting
          /\ keyboard_mode' = IF ShiftHeld THEN AfterShiftDown(keyboard_mode)
                              ELSE keyboard_mode
          /\ lifting' = lifting \ {k}
      BY <1>5 DEF LowerShift
    <2>2. Shifting' = Shifting /\ (ShiftHeld => Shifting # {})
      BY <2>1 DEF ShiftHeld, Shifting
    <2>3. ~muddled' => lifting' = {} /\ keyboard_mode' = ModeOf(TRUE, caps) /\ Shifting' # {}
      BY <2>1, <2>2 DEF AfterShiftDown, KeysInv, ModeOf, ScancodesTypeOK
    <2>4. ScancodesTypeOK'
      BY <2>1 DEF AfterShiftDown, KeysInv, ScancodesTypeOK
    <2>5. NoModifierStuck'
      BY <2>1, <2>2 DEF KeysInv, NoModifierStuck
    <2>6. QED
      BY <2>1, <2>3, <2>4, <2>5 DEF KeysInv
  <1>6. ASSUME NEW k \in CtrlKeys, CtrlDown(k) \/ CtrlUp(k)
        PROVE  KeysInv'
    <2>1. /\ \/ held' = held \cup {k} /\ ctrl_flag' = PRESS_CTRL
             \/ held' = held \ {k} /\ ctrl_flag' = PRESS_NOTHING
          /\ UNCHANGED <<keyboard_mode, alt_flag, lifting, caps, muddled>>
      BY <1>6 DEF CtrlDown, CtrlUp, Down, Up
    <2>2. /\ held' \cap (ShiftKeys \cup ExtendedKeys) = held \cap (ShiftKeys \cup ExtendedKeys)
          /\ held' \cap AltKeys = held \cap AltKeys
      BY <2>1, ModifierKeysAssumption
    <2>3. ShiftHeld' = ShiftHeld /\ Shifting' = Shifting
      BY <2>2, SameShifts
    <2>4. ScancodesTypeOK' /\ NoModifierStuck'
      BY <2>1, <2>2, <2>3 DEF KeysInv, ScancodesTypeOK, NoModifierStuck
    <2>5. QED
      BY <2>1, <2>3, <2>4 DEF KeysInv
  <1>7. ASSUME NEW k \in AltKeys, AltDown(k) \/ AltUp(k)
        PROVE  KeysInv'
    <2>1. /\ \/ held' = held \cup {k} /\ alt_flag' = PRESS_ALT
             \/ held' = held \ {k} /\ alt_flag' = PRESS_NOTHING
          /\ UNCHANGED <<keyboard_mode, ctrl_flag, lifting, caps, muddled>>
      BY <1>7 DEF AltDown, AltUp, Down, Up
    <2>2. /\ held' \cap (ShiftKeys \cup ExtendedKeys) = held \cap (ShiftKeys \cup ExtendedKeys)
          /\ held' \cap CtrlKeys = held \cap CtrlKeys
      BY <2>1, ModifierKeysAssumption
    <2>3. ShiftHeld' = ShiftHeld /\ Shifting' = Shifting
      BY <2>2, SameShifts
    <2>4. ScancodesTypeOK' /\ NoModifierStuck'
      BY <2>1, <2>2, <2>3 DEF KeysInv, ScancodesTypeOK, NoModifierStuck
    <2>5. QED
      BY <2>1, <2>3, <2>4 DEF KeysInv
  <1>8. QED
    BY <1>1, <1>2, <1>3, <1>4, <1>5, <1>6, <1>7 DEF ModifierKey

\* Only the modifier keys change the modifiers.
LEMMA StepOfKeys == [Next]_vars => ModifierKey \/ UNCHANGED scancodeVars
  <1> SUFFICES ASSUME [Next]_vars PROVE ModifierKey \/ UNCHANGED scancodeVars
    OBVIOUS
  <1> USE DEF scancodeVars
  <1>1. CASE UNCHANGED vars
    BY <1>1 DEF vars
  <1>2. CASE Boot
    BY <1>2 DEF Boot, InitIdt, I8259Init, RtcInit, PitInit, OpenKeyboard, DeviceInit, Sti,
                InitializePaging, InitTerminals
  <1>3. CASE Program
    BY <1>3 DEF Program, Execute, Halt, ClockCall
  <1>4. CASE Key
    BY <1>4 DEF Key, PressModifier, PressOtherKey, CtrlC, ChangeTerminal, LaunchTerminal, AltFn
  <1>5. CASE Handler
    BY <1>5 DEF Handler, PitInterrupt, PitReturns, RtcInterrupt, LaunchEnables, LaunchExecutes,
                HandlerAcknowledges, HandlerEnables, HandlerReturns, Enables
  <1>6. QED
    BY <1>1, <1>2, <1>3, <1>4, <1>5 DEF Next

LEMMA KeysInvariance == Spec => []KeysInv
  <1>1. Init => KeysInv
    BY InitKeysInv DEF Init
  <1>2. KeysInv /\ [Next]_vars => KeysInv'
    <2> SUFFICES ASSUME KeysInv, [Next]_vars PROVE KeysInv'
      OBVIOUS
    <2>1. CASE UNCHANGED scancodeVars
      BY <2>1 DEF scancodeVars, KeysInv, ScancodesTypeOK, NoModifierStuck, ShiftHeld, Shifting
    <2>2. QED
      BY <2>1, StepOfKeys, ModifierKeyKeepsKeysInv
  <1>3. QED
    BY <1>1, <1>2, PTL DEF Spec

\* A modifier is in effect only while one of its keys is held, in whatever order codes
\* come.  (press_caps, press_shift, unpress_shift, set_ctrl_flag, set_alt_flag)
THEOREM NoModifierStuckCorrect == Spec => []NoModifierStuck
  <1>1. KeysInv => NoModifierStuck
    BY DEF KeysInv
  <1>2. QED
    BY <1>1, KeysInvariance, PTL

\* Every key gives the character its user expects, as long as codes of Shift keys have
\* not overlapped, and while no extended key holds or lifts a Shift.  (scancode_array, press_caps, press_shift, unpress_shift)
THEOREM CharactersFollowKeysCorrect == Spec => []CharactersFollowKeys
  <1>1. KeysInv => CharactersFollowKeys
    <2> SUFFICES ASSUME KeysInv, ~muddled, held \cap ExtendedKeys = {}, lifting = {},
                        NEW class \in KeyClasses
                 PROVE  scancode_array(keyboard_mode, class) =
                            CASE class = "letter" -> Letter(ShiftHeld # caps)
                              [] class = "symbol" -> Symbol(ShiftHeld)
                              [] class = "fixed"  -> "same"
                              [] class = "none"   -> "null"
      BY DEF CharactersFollowKeys
    <2>1. /\ keyboard_mode = ModeOf(ShiftHeld, caps)
          /\ caps \in BOOLEAN /\ ShiftHeld \in BOOLEAN
      BY DEF KeysInv, ScancodesTypeOK, ShiftHeld, Shifting
    <2>2. /\ keyboard_mode \in {PRESS_SHIFT_ONLY, PRESS_CAP_ONLY} <=> ShiftHeld # caps
          /\ keyboard_mode \in {PRESS_SHIFT_ONLY, PRESS_SHIFT_CAP} <=> ShiftHeld
      BY <2>1 DEF ModeOf, PRESS_NOTHING, PRESS_SHIFT_ONLY, PRESS_CAP_ONLY, PRESS_SHIFT_CAP
    <2>3. QED
      BY <2>2 DEF scancode_array, KeyClasses, Letter, Symbol
  <1>2. QED
    BY <1>1, KeysInvariance, PTL

-----------------------------------------------------------------------------
(* The chain of activities.                                                 *)

\* The stages of the boot in which interrupts are disabled.
Early == {"init_idt", "i8259_init", "rtc_init", "pit_init", "open_keyboard", "sti"}

\* Below everything is the boot, interrupted by nothing but the timer, or the first
\* shell on the activity that launched it.
Chain(c) ==
    /\ c \in Seq(Activities) /\ c # <<>>
    /\ c[1] \in Early => Len(c) = 1
    /\ \/ /\ c[1] = "launched" /\ Len(c) >= 2 /\ c[2] = "user"
          /\ \A i \in 2..Len(c) : c[i] \notin BootStages
       \/ c[1] \in BootStages /\ \A i \in 2..Len(c) : c[i] = "pit"

\* The keyboard's line is masked for a handler that will enable it.
Masking == {"launch", "eoi", "enable"}

KeyMasked(c) ==
    \E n \in 1..Len(c) : c[n] \in Masking /\ \A i \in (n + 1)..Len(c) : c[i] = "pit"

LEMMA ChainFacts ==
    ASSUME NEW c, Chain(c)
    PROVE  /\ Len(c) \in Nat \ {0}
           /\ \A i \in 1..Len(c) : c[i] \in Activities
           /\ Last(c) = c[Len(c)]
           /\ Last(c) \in BootStages => Len(c) = 1 /\ c[1] = Last(c)
           /\ c[1] \in Early => c[1] = Last(c)
           /\ Last(c) \notin BootStages \cup {"pit"} => c[1] = "launched"
           /\ Last(c) \notin BootStages \cup {"pit", "user"} => Len(c) >= 3
           /\ Last(c) = "pit" => Len(c) >= 2 /\ c[1] \notin Early
  <1>1. c \in Seq(Activities) /\ Len(c) \in Nat \ {0}
    BY EmptySeq DEF Chain
  <1>2. Len(c) \in Nat /\ Len(c) >= 1
    BY <1>1
  <1>3. \A i \in 1..Len(c) : c[i] \in Activities
    BY <1>1, ElementOfSeq
  <1>4. Last(c) = c[Len(c)]
    BY DEF Last
  <1>5. CASE c[1] = "launched" /\ Len(c) >= 2 /\ c[2] = "user"
             /\ \A i \in 2..Len(c) : c[i] \notin BootStages
    <2>1. Len(c) >= 2
      BY <1>5
    <2>2. Len(c) \in 2..Len(c)
      BY <1>1, <2>1
    <2>3. c[1] \notin Early
      BY <1>5 DEF Early
    <2>4. Last(c) \notin BootStages
      BY <1>4, <1>5, <2>2
    <2>5. Last(c) # "user" => Len(c) >= 3
      BY <1>1, <1>4, <1>5
    <2>6. QED
      BY <1>1, <1>3, <1>4, <1>5, <2>2, <2>3, <2>4, <2>5
  <1>6. CASE c[1] \in BootStages /\ \A i \in 2..Len(c) : c[i] = "pit"
    <2>1. CASE Len(c) = 1
      BY <1>1, <1>3, <1>4, <1>6, <2>1 DEF BootStages
    <2>2. CASE Len(c) >= 2
      <3>1. Len(c) \in 2..Len(c)
        BY <1>1, <2>2
      <3>2. Last(c) = "pit"
        BY <1>4, <1>6, <3>1
      <3>3. c[1] \notin Early
        BY <2>2 DEF Chain
      <3>4. QED
        BY <1>1, <1>3, <1>4, <3>1, <3>2, <3>3 DEF BootStages
    <2>3. Len(c) = 1 \/ Len(c) >= 2
      <3> DEFINE n == Len(c)
      <3>1. n \in Nat /\ n >= 1
        BY <1>2
      <3> HIDE DEF n
      <3>2. n = 1 \/ n >= 2
        BY <3>1
      <3>3. QED
        BY <3>2 DEF n
    <2>4. QED
      BY <2>1, <2>2, <2>3
  <1>7. QED
    BY <1>5, <1>6 DEF Chain

\* Something is put on top of the chain.
LEMMA AppendFacts ==
    ASSUME NEW c, Chain(c), NEW a \in Activities \ BootStages,
           c[1] \notin Early, c[1] \in BootStages => a = "pit"
    PROVE  /\ Chain(Append(c, a))
           /\ Append(c, a)[1] = c[1]
           /\ Last(Append(c, a)) = a
           /\ a = "pit" /\ KeyMasked(c) => KeyMasked(Append(c, a))
           /\ a \in Masking => KeyMasked(Append(c, a))
  <1>1. c \in Seq(Activities) /\ Len(c) \in Nat \ {0}
    BY ChainFacts DEF Chain
  <1> DEFINE d == Append(c, a)
  <1>2. /\ d \in Seq(Activities)
        /\ Len(d) = Len(c) + 1
        /\ \A i \in 1..Len(c) : d[i] = c[i]
        /\ d[Len(c) + 1] = a
    BY <1>1, AppendProperties
  <1> HIDE DEF d
  <1>3. d # <<>> /\ d[1] = c[1]
    BY <1>1, <1>2, EmptySeq
  <1>4. Last(d) = a
    BY <1>2 DEF Last
  <1>5. Chain(d)
    <2>1. CASE c[1] = "launched" /\ Len(c) >= 2 /\ c[2] = "user"
               /\ \A i \in 2..Len(c) : c[i] \notin BootStages
      <3>1. d[2] = "user" /\ \A i \in 2..Len(d) : d[i] \notin BootStages
        BY <1>1, <1>2, <2>1
      <3>2. QED
        BY <1>1, <1>2, <1>3, <2>1, <3>1 DEF Chain
    <2>2. CASE c[1] \in BootStages /\ \A i \in 2..Len(c) : c[i] = "pit"
      <3>1. \A i \in 2..Len(d) : d[i] = "pit"
        BY <1>1, <1>2, <2>2
      <3>2. QED
        BY <1>1, <1>2, <1>3, <2>2, <3>1 DEF Chain
    <2>3. QED
      BY <2>1, <2>2 DEF Chain
  <1>6. ASSUME a = "pit", KeyMasked(c)
        PROVE  KeyMasked(d)
    <2>1. PICK n \in 1..Len(c) : c[n] \in Masking /\ \A i \in (n + 1)..Len(c) : c[i] = "pit"
      BY <1>6 DEF KeyMasked
    <2>2. n \in 1..Len(d) /\ d[n] \in Masking /\ \A i \in (n + 1)..Len(d) : d[i] = "pit"
      BY <1>1, <1>2, <1>6, <2>1
    <2>3. QED
      BY <2>2 DEF KeyMasked
  <1>7. ASSUME a \in Masking
        PROVE  KeyMasked(d)
    <2>1. /\ Len(d) \in 1..Len(d) /\ d[Len(d)] \in Masking
          /\ \A i \in (Len(d) + 1)..Len(d) : d[i] = "pit"
      BY <1>1, <1>2, <1>7
    <2>2. QED
      BY <2>1 DEF KeyMasked
  <1>8. QED
    BY <1>3, <1>4, <1>5, <1>6, <1>7 DEF d

\* A chain that ends above the first shell, cut down to its first n activities.
LEMMA CutFacts ==
    ASSUME NEW c, Chain(c), c[1] = "launched", NEW n \in 2..Len(c)
    PROVE  /\ Chain(SubSeq(c, 1, n))
           /\ SubSeq(c, 1, n)[1] = "launched"
           /\ Len(SubSeq(c, 1, n)) = n
           /\ \A i \in 1..n : SubSeq(c, 1, n)[i] = c[i]
  <1>1. c \in Seq(Activities) /\ Len(c) \in Nat \ {0} /\ \A i \in 1..Len(c) : c[i] \in Activities
    BY ChainFacts DEF Chain
  <1> DEFINE d == SubSeq(c, 1, n)
  <1>2. /\ d \in Seq(Activities)
        /\ Len(d) = n
        /\ \A i \in 1..n : d[i] = c[i]
    <2>1. 1 \in Int /\ n \in Int /\ \A i \in 1..n : c[i] \in Activities
      BY <1>1
    <2>2. /\ SubSeq(c, 1, n) \in Seq(Activities)
          /\ Len(SubSeq(c, 1, n)) = IF 1 <= n THEN n - 1 + 1 ELSE 0
          /\ \A i \in 1..(n - 1 + 1) : SubSeq(c, 1, n)[i] = c[1 + i - 1]
      BY <2>1, SubSeqProperties
    <2>3. QED
      BY <1>1, <2>2
  <1> HIDE DEF d
  <1>3. d # <<>> /\ d[1] = "launched" /\ d[2] = c[2]
    BY <1>1, <1>2, EmptySeq
  <1>4. c[2] = "user" /\ \A i \in 2..Len(c) : c[i] \notin BootStages
    BY DEF Chain, BootStages
  <1>5. \A i \in 2..Len(d) : d[i] \notin BootStages
    BY <1>1, <1>2, <1>4
  <1>6. Chain(d)
    BY <1>1, <1>2, <1>3, <1>4, <1>5 DEF Chain, Early
  <1>7. QED
    BY <1>2, <1>3, <1>6 DEF d

\* The activity on top gives way to the one below it.
LEMMA FrontFacts ==
    ASSUME NEW c, Chain(c), Last(c) \in HandlerPlaces \cup {"launched", "pit"},
           c[1] = "launched" => Len(c) >= 3
    PROVE  /\ Chain(Front(c))
           /\ Front(c)[1] = c[1]
           /\ Last(c) = "pit" /\ KeyMasked(c) => KeyMasked(Front(c))
  <1>1. /\ c \in Seq(Activities) /\ Len(c) \in Nat
        /\ Last(c) = c[Len(c)]
        /\ \A i \in 1..Len(c) : c[i] \in Activities
        /\ Last(c) = "pit" => Len(c) >= 2 /\ c[1] \notin Early
    BY ChainFacts DEF Chain
  <1>2. CASE c[1] = "launched"
    <2>1. Len(c) - 1 \in 2..Len(c) /\ Front(c) = SubSeq(c, 1, Len(c) - 1)
      BY <1>1, <1>2 DEF Front
    <2>2. /\ Chain(Front(c)) /\ Front(c)[1] = "launched" /\ Len(Front(c)) = Len(c) - 1
          /\ \A i \in 1..(Len(c) - 1) : Front(c)[i] = c[i]
      BY <1>2, <2>1, CutFacts
    <2>3. ASSUME Last(c) = "pit", KeyMasked(c)
          PROVE  KeyMasked(Front(c))
      <3>1. PICK n \in 1..Len(c) : c[n] \in Masking /\ \A i \in (n + 1)..Len(c) : c[i] = "pit"
        BY <2>3 DEF KeyMasked
      <3>2. n # Len(c)
        BY <1>1, <2>3, <3>1 DEF Masking
      <3>3. n \in 1..Len(Front(c)) /\ Front(c)[n] \in Masking
            /\ \A i \in (n + 1)..Len(Front(c)) : Front(c)[i] = "pit"
        BY <1>1, <2>2, <3>1, <3>2
      <3>4. QED
        BY <3>3 DEF KeyMasked
    <2>4. QED
      BY <1>2, <2>2, <2>3
  <1>3. CASE c[1] # "launched"
    <2>1. /\ c[1] \in BootStages
          /\ \A i \in 2..Len(c) : c[i] = "pit"
      BY <1>3 DEF Chain
    <2>2. Last(c) = "pit"
      BY <1>1, <1>3, ChainFacts, <2>1 DEF BootStages, HandlerPlaces
    <2>3. Len(c) >= 2 /\ c[1] \notin Early
      BY <1>1, <2>2
    <2> DEFINE d == Front(c)
               m == Len(c) - 1
    <2>4. /\ d \in Seq(Activities) /\ Len(d) = m
          /\ \A i \in 1..m : d[i] = c[i]
      <3>1. m \in Int /\ \A i \in 1..m : c[i] \in Activities
        BY <1>1
      <3>2. /\ SubSeq(c, 1, m) \in Seq(Activities)
            /\ Len(SubSeq(c, 1, m)) = IF 1 <= m THEN m - 1 + 1 ELSE 0
            /\ \A i \in 1..(m - 1 + 1) : SubSeq(c, 1, m)[i] = c[1 + i - 1]
        BY <3>1, SubSeqProperties
      <3>3. d = SubSeq(c, 1, m)
        BY DEF Front
      <3> HIDE DEF d
      <3>4. m \in Nat /\ m >= 1 /\ m - 1 + 1 = m /\ \A i \in 1..m : 1 + i - 1 = i
        BY <1>1, <2>3
      <3> HIDE DEF m
      <3>5. QED
        BY <3>2, <3>3, <3>4
    <2> HIDE DEF d
    <2>5. Len(d) >= 1 /\ d # <<>> /\ d[1] = c[1]
      BY <1>1, <2>3, <2>4, EmptySeq
    <2>6. \A i \in 2..Len(d) : d[i] = "pit"
      BY <1>1, <2>1, <2>4
    <2>7. Chain(d)
      BY <2>1, <2>3, <2>4, <2>5, <2>6 DEF Chain
    <2>8. ~ KeyMasked(c)
      <3>1. \A n \in 1..Len(c) : c[n] \notin Masking
        BY <1>1, <2>1 DEF Masking, BootStages
      <3>2. QED
        BY <3>1 DEF KeyMasked
    <2>9. QED
      BY <2>5, <2>7, <2>8 DEF d
  <1>4. QED
    BY <1>2, <1>3

\* What masks the keyboard's line is on top but for timer interrupts.
LEMMA TopMasks == ASSUME NEW c, Chain(c), KeyMasked(c)
                  PROVE  Last(c) \in Masking \cup {"pit"}
  <1>1. Len(c) \in Nat \ {0} /\ Last(c) = c[Len(c)]
    BY ChainFacts
  <1>2. PICK n \in 1..Len(c) : c[n] \in Masking /\ \A i \in (n + 1)..Len(c) : c[i] = "pit"
    BY DEF KeyMasked
  <1>3. CASE n = Len(c)
    BY <1>1, <1>2, <1>3
  <1>4. CASE n < Len(c)
    <2>1. Len(c) \in (n + 1)..Len(c)
      BY <1>1, <1>4
    <2>2. QED
      BY <1>1, <1>2, <2>1
  <1>5. QED
    BY <1>1, <1>3, <1>4

\* A set of positions that is not empty has a last one.
LEMMA LastOne == ASSUME NEW S, NEW n \in Nat, S \subseteq 1..n, S # {}
                 PROVE  \E m \in S : \A i \in S : i <= m
  <1> DEFINE T == {n - i : i \in S}
             less == {ss \in Nat \X Nat : ss[1] < ss[2]}
  <1>1. less = OpToRel(<, Nat)
    BY Zenon DEF OpToRel
  <1>2. IsWellFoundedOn(less, Nat)
    BY <1>1, NatLessThanWellFounded, Zenon
  <1>3. T \subseteq Nat /\ T # {}
    OBVIOUS
  <1>4. \E x \in T : \A y \in T : ~ (<<y, x>> \in less)
    <2> HIDE DEF less, T
    <2>1. QED
      BY <1>2, <1>3, WFMin
  <1>5. \A x, y \in Nat : y < x => <<y, x>> \in less
    OBVIOUS
  <1> HIDE DEF less
  <1>6. PICK x \in T : \A y \in T : ~ (<<y, x>> \in less)
    BY <1>4
  <1>7. \A y \in T : y \in Nat /\ x \in Nat /\ ~ (y < x)
    BY <1>3, <1>5, <1>6
  <1>8. PICK m \in S : x = n - m
    BY <1>6
  <1>9. \A i \in S : n - i \in T /\ i \in Nat /\ m \in Nat
    OBVIOUS
  <1>10. \A i \in S : ~ (n - i < n - m)
    BY <1>7, <1>8, <1>9
  <1>11. QED
    BY <1>9, <1>10

\* Where the last program is: above the first shell, unless it is the first shell.
LEMMA TopProgramFacts ==
    ASSUME Chain(frames), Booted
    PROVE  /\ TopProgram \in 2..Len(frames)
           /\ frames[TopProgram] = "user"
           /\ Programs # 1 => TopProgram >= 3
  <1>1. /\ Len(frames) \in Nat /\ Len(frames) >= 2
        /\ frames[1] = "launched" /\ frames[2] = "user"
    BY ChainFacts DEF Chain, Booted, BootStages
  <1> DEFINE S == {i \in 1..Len(frames) : frames[i] = "user"}
  <1>2. S \subseteq 1..Len(frames) /\ 2 \in S
    BY <1>1
  <1>3. \E m \in S : \A i \in S : i <= m
    BY <1>1, <1>2, LastOne
  <1>4. \E i \in 1..Len(frames) :
           frames[i] = "user" /\ \A j \in (i + 1)..Len(frames) : frames[j] # "user"
    <2>1. PICK m \in S : \A i \in S : i <= m
      BY <1>3
    <2>2. \A j \in (m + 1)..Len(frames) : frames[j] # "user"
      BY <1>1, <2>1
    <2>3. QED
      BY <2>1, <2>2
  <1>5. /\ TopProgram \in 1..Len(frames) /\ frames[TopProgram] = "user"
        /\ \A j \in (TopProgram + 1)..Len(frames) : frames[j] # "user"
    BY <1>4 DEF TopProgram
  <1>6. TopProgram \in 2..Len(frames)
    BY <1>1, <1>5
  <1>7. ASSUME TopProgram = 2 PROVE Programs = 1
    <2>1. \A i \in S : i = 2
      BY <1>1, <1>5, <1>7
    <2>2. S = {2}
      BY <1>2, <2>1
    <2>3. QED
      BY <2>2, FS_Singleton DEF Programs
  <1>8. QED
    BY <1>1, <1>5, <1>6, <1>7

\* halt leaves a chain above the first shell, with a program or the handler that
\* launched the ended one on top.
LEMMA HaltFacts ==
    ASSUME Chain(frames), Booted
    PROVE  Chain(AfterHalt) /\ AfterHalt[1] = "launched"
  <1>1. /\ Len(frames) \in Nat
        /\ TopProgram \in 2..Len(frames) /\ (Programs # 1 => TopProgram >= 3)
        /\ frames[1] = "launched"
    BY ChainFacts, TopProgramFacts DEF Booted
  <1>2. CASE Programs = 1
    BY <1>1, <1>2, CutFacts DEF AfterHalt
  <1>3. CASE Programs # 1
    <2> DEFINE n == TopProgram - 1
               d == SubSeq(frames, 1, n)
    <2>1. n \in 2..Len(frames)
      BY <1>1, <1>3
    <2>2. /\ Chain(d) /\ d[1] = "launched" /\ Len(d) = n
          /\ \A i \in 1..n : d[i] = frames[i]
      BY <1>1, <2>1, CutFacts
    <2>3. AfterHalt = Parent(d)
      BY <1>3 DEF AfterHalt
    <2> HIDE DEF d, n
    <2>4. CASE Last(d) = "launched"
      <3>1. Len(d) >= 3
        BY <2>2, <2>4, ChainFacts DEF BootStages
      <3>2. Chain(Front(d)) /\ Front(d)[1] = "launched"
        BY <2>2, <2>4, <3>1, FrontFacts
      <3>3. Chain(Append(Front(d), "eoi")) /\ Append(Front(d), "eoi")[1] = "launched"
        BY <3>2, AppendFacts DEF Activities, HandlerPlaces, BootStages, Early
      <3>4. QED
        BY <2>3, <2>4, <3>3 DEF Parent
    <2>5. CASE Last(d) # "launched"
      BY <2>2, <2>3, <2>5 DEF Parent
    <2>6. QED
      BY <2>4, <2>5
  <1>4. QED
    BY <1>2, <1>3

-----------------------------------------------------------------------------
(* The controllers.                                                         *)

\* Unmasking or masking a line writes its controller's half of the mask; the other
\* half is as it was.
LEMMA MaskFacts ==
    ASSUME NEW line \in Lines, imr = irq_mask, irq_mask \subseteq Lines
    PROVE  /\ EnableIrq(line) => irq_mask' = irq_mask \ {line} /\ imr' = irq_mask'
           /\ DisableIrq(line) => irq_mask' = irq_mask \cup {line} /\ imr' = irq_mask'
           /\ DisableAndEnableIrq(line) => irq_mask' = irq_mask \ {line} /\ imr' = irq_mask'
  <1>1. line \in ControllerOf(line)
    BY DEF ControllerOf, Lines
  <1>2. ASSUME NEW mask, mask \ {line} = irq_mask \ {line}
        PROVE  Output(line, mask) = mask
    BY <1>1, <1>2 DEF Output
  <1>3. /\ Unmasked(irq_mask, line) \ {line} = irq_mask \ {line}
        /\ Masked(irq_mask, line) \ {line} = irq_mask \ {line}
        /\ Unmasked(Masked(irq_mask, line), line) = irq_mask \ {line}
    BY DEF Unmasked, Masked
  <1>4. EnableIrq(line) => irq_mask' = irq_mask \ {line} /\ imr' = irq_mask'
    BY <1>2, <1>3 DEF EnableIrq, Unmasked
  <1>5. DisableIrq(line) => irq_mask' = irq_mask \cup {line} /\ imr' = irq_mask'
    BY <1>2, <1>3 DEF DisableIrq, Masked
  <1>6. DisableAndEnableIrq(line) => irq_mask' = irq_mask \ {line} /\ imr' = irq_mask'
    BY <1>2, <1>3 DEF DisableAndEnableIrq
  <1>7. QED
    BY <1>4, <1>5, <1>6

\* An interrupt that is acknowledged leaves nothing in service.
LEMMA EoiFacts == ASSUME NEW line \in Lines, isr = {}
                  PROVE  AfterEoi(InService(line), line) = {}
  BY DEF AfterEoi, InService

\* The lines the boot opens.
Opened == {PIT_IRQ, KEYBOARD_IRQ, SLAVE_IRQ, RTC_IRQ}

\* What the boot has masked in the variables when it comes to a stage.
MaskAt(stage) ==
    CASE stage \in {"init_idt", "i8259_init"} -> Lines
      [] stage = "rtc_init"      -> Lines \ {SLAVE_IRQ}
      [] stage = "pit_init"      -> Lines \ {SLAVE_IRQ, RTC_IRQ}
      [] stage = "open_keyboard" -> Lines \ {SLAVE_IRQ, RTC_IRQ, PIT_IRQ}
      [] OTHER                   -> Lines \ Opened

\* Before interrupts are enabled.
EarlyOK ==
    /\ ~iflag
    /\ isr = {}
    /\ irq_mask = MaskAt(frames[1])
    /\ frames[1] # "init_idt" => idt_loaded
    /\ frames[1] \notin {"init_idt", "i8259_init"} => vectors = InitVectors
    /\ frames[1] = "rtc_init" => imr = irq_mask \cap Master
    /\ frames[1] \in {"pit_init", "open_keyboard", "sti"} => imr = irq_mask

\* From then on.
LateOK ==
    /\ idt_loaded
    /\ vectors = InitVectors
    /\ isr = {}
    /\ imr = irq_mask
    /\ irq_mask \subseteq Lines /\ Lines \ Opened \subseteq irq_mask
    /\ PIT_IRQ \notin irq_mask /\ SLAVE_IRQ \notin irq_mask
    /\ iflag \/ Top \in {"eoi", "enable", "return"}
    /\ KEYBOARD_IRQ \in irq_mask => KeyMasked(frames)

\* What has a type and no more.
OthersOK ==
    /\ iflag \in BOOLEAN
    /\ idt_loaded \in BOOLEAN
    /\ vectors \in [master : 0..248, slave : 0..248]
    /\ imr \subseteq Lines
    /\ paging \in BOOLEAN
    /\ kernel_mapped \in BOOLEAN
    /\ is_in_use_flag \in [Terminals -> BOOLEAN]
    /\ cur_term_id \in Terminals

IInv ==
    /\ Chain(frames)
    /\ frames[1] \in Early => EarlyOK
    /\ frames[1] \notin Early => LateOK
    /\ OthersOK

LEMMA InitIInv == Init => IInv
  <1> SUFFICES ASSUME Init PROVE IInv
    OBVIOUS
  <1>1. frames = <<"init_idt">> /\ frames[1] = "init_idt" /\ Len(frames) = 1
    BY DEF Init
  <1>2. Chain(frames)
    <2>1. frames \in Seq(Activities) /\ frames # <<>>
      BY <1>1 DEF Activities, BootStages
    <2>2. \A i \in 2..Len(frames) : frames[i] = "pit"
      BY <1>1
    <2>3. QED
      BY <1>1, <2>1, <2>2 DEF Chain, BootStages
  <1>3. EarlyOK
    BY <1>1 DEF EarlyOK, Init, MaskAt
  <1>4. OthersOK
    <2>1. 0 \in Terminals
      BY SizesAssumption DEF Terminals
    <2>2. [master |-> 8, slave |-> 112] \in [master : 0..248, slave : 0..248]
      OBVIOUS
    <2>3. QED
      BY <2>1, <2>2 DEF Init, OthersOK
  <1>5. QED
    BY <1>1, <1>2, <1>3, <1>4 DEF IInv, Early

\* The boot with interrupts disabled: each stage becomes the next.
LEMMA EarlyBecome ==
    ASSUME Chain(frames), Top \in Early, NEW a \in BootStages, Become(a)
    PROVE  Chain(frames') /\ frames'[1] = a /\ Last(frames') = a /\ frames[1] = Top
  <1>1. frames \in Seq(Activities) /\ Len(frames) = 1 /\ frames[1] = Top
    BY ChainFacts DEF Top, Chain, Early, BootStages
  <1>2. Front(frames) = <<>>
    BY <1>1 DEF Front
  <1>3. frames' = <<a>>
    BY <1>2 DEF Become
  <1>4. Len(frames') = 1 /\ frames'[1] = a /\ frames' # <<>> /\ frames' \in Seq(Activities)
    BY <1>3 DEF Activities
  <1>5. \A i \in 2..Len(frames') : frames'[i] = "pit"
    BY <1>4
  <1>6. Chain(frames')
    BY <1>4, <1>5 DEF Chain
  <1>7. QED
    BY <1>1, <1>4, <1>6 DEF Last

\* Every stage up to sti finds its mask as the one before left it.
LEMMA EarlySteps ==
    ASSUME IInv, InitIdt \/ I8259Init \/ RtcInit \/ PitInit \/ OpenKeyboard \/ Sti
    PROVE  IInv'
  <1> USE DEF PIT_IRQ, KEYBOARD_IRQ, SLAVE_IRQ, RTC_IRQ
  <1>1. Top = frames[1] /\ Top \in Early /\ EarlyOK /\ Chain(frames)
    BY ChainFacts
    DEF IInv, Top, Early, BootStages, InitIdt, I8259Init, RtcInit, PitInit, OpenKeyboard, Sti,
        DeviceInit
  <1>2. CASE InitIdt
    <2>1. Chain(frames') /\ frames'[1] = "i8259_init"
      BY <1>1, <1>2, EarlyBecome DEF InitIdt, BootStages
    <2>2. EarlyOK'
      BY <1>1, <1>2, <2>1 DEF EarlyOK, InitIdt, controllerVars, MaskAt
    <2>3. OthersOK'
      BY <1>2 DEF IInv, OthersOK, InitIdt, controllerVars, pagingVars, terminalVars
    <2>4. QED
      BY <2>1, <2>2, <2>3 DEF IInv, Early
  <1>3. CASE I8259Init
    <2>1. Chain(frames') /\ frames'[1] = "rtc_init"
      BY <1>1, <1>3, EarlyBecome DEF I8259Init, BootStages
    <2>2. irq_mask = Lines
      BY <1>1, <1>3 DEF EarlyOK, MaskAt, I8259Init
    <2>3. EarlyOK'
      <3>1. irq_mask' = Lines \ {SLAVE_IRQ} /\ imr' = irq_mask' \cap Master
        BY <1>3, <2>2 DEF I8259Init, Unmasked
      <3>2. ~iflag' /\ isr' = {} /\ idt_loaded' /\ vectors' = InitVectors
        BY <1>1, <1>3 DEF EarlyOK, I8259Init
      <3>3. QED
        BY <2>1, <3>1, <3>2 DEF EarlyOK, MaskAt
    <2>4. InitVectors \in [master : 0..248, slave : 0..248]
      BY DEF InitVectors
    <2>5. OthersOK'
      BY <1>3, <2>4 DEF IInv, OthersOK, I8259Init, pagingVars, terminalVars, Lines, Master
    <2>6. QED
      BY <2>1, <2>3, <2>5 DEF IInv, Early
  <1>4. CASE RtcInit
    <2>1. Chain(frames') /\ frames'[1] = "pit_init" /\ frames[1] = "rtc_init"
      BY <1>1, <1>4, EarlyBecome DEF RtcInit, DeviceInit, BootStages
    <2>2. irq_mask = Lines \ {SLAVE_IRQ} /\ imr = irq_mask \cap Master
      BY <1>1, <2>1 DEF EarlyOK, MaskAt
    <2>3. irq_mask' = Lines \ {SLAVE_IRQ, RTC_IRQ} /\ imr' = irq_mask'
      <3>1. irq_mask' = irq_mask \ {RTC_IRQ} /\ imr' = Output(RTC_IRQ, irq_mask')
        BY <1>4 DEF RtcInit, DeviceInit, EnableIrq, Unmasked
      <3>2. ControllerOf(RTC_IRQ) = Lines \ Master
        BY DEF ControllerOf, Master
      <3>3. irq_mask' = Lines \ {SLAVE_IRQ, RTC_IRQ}
        BY <2>2, <3>1
      <3>4. imr' = (irq_mask \cap Master) \cup (irq_mask' \cap (Lines \ Master))
        BY <2>2, <3>1, <3>2 DEF Output
      <3>5. QED
        BY <2>2, <3>3, <3>4 DEF Lines, Master
    <2>4. EarlyOK'
      BY <1>1, <1>4, <2>1, <2>3 DEF EarlyOK, RtcInit, DeviceInit, MaskAt
    <2>5. OthersOK'
      BY <1>4, <2>3 DEF IInv, OthersOK, RtcInit, DeviceInit, pagingVars, terminalVars, Lines
    <2>6. QED
      BY <2>1, <2>4, <2>5 DEF IInv, Early
  <1>5. CASE PitInit
    <2>1. Chain(frames') /\ frames'[1] = "open_keyboard" /\ frames[1] = "pit_init"
      BY <1>1, <1>5, EarlyBecome DEF PitInit, DeviceInit, BootStages
    <2>2. irq_mask = Lines \ {SLAVE_IRQ, RTC_IRQ} /\ imr = irq_mask
      BY <1>1, <2>1 DEF EarlyOK, MaskAt
    <2>3. irq_mask' = irq_mask \ {PIT_IRQ} /\ imr' = irq_mask'
      BY <1>5, <2>2, MaskFacts DEF PitInit, DeviceInit, Lines
    <2>4. irq_mask' = Lines \ {SLAVE_IRQ, RTC_IRQ, PIT_IRQ}
      BY <2>2, <2>3
    <2>5. EarlyOK'
      BY <1>1, <1>5, <2>1, <2>3, <2>4 DEF EarlyOK, PitInit, DeviceInit, MaskAt
    <2>6. OthersOK'
      BY <1>5, <2>3, <2>4 DEF IInv, OthersOK, PitInit, DeviceInit, pagingVars, terminalVars
    <2>7. QED
      BY <2>1, <2>5, <2>6 DEF IInv, Early
  <1>6. CASE OpenKeyboard
    <2>1. Chain(frames') /\ frames'[1] = "sti" /\ frames[1] = "open_keyboard"
      BY <1>1, <1>6, EarlyBecome DEF OpenKeyboard, DeviceInit, BootStages
    <2>2. irq_mask = Lines \ {SLAVE_IRQ, RTC_IRQ, PIT_IRQ} /\ imr = irq_mask
      BY <1>1, <2>1 DEF EarlyOK, MaskAt
    <2>3. irq_mask' = irq_mask \ {KEYBOARD_IRQ} /\ imr' = irq_mask'
      BY <1>6, <2>2, MaskFacts DEF OpenKeyboard, DeviceInit, Lines
    <2>4. irq_mask' = Lines \ Opened
      BY <2>2, <2>3 DEF Opened
    <2>5. EarlyOK'
      BY <1>1, <1>6, <2>1, <2>3, <2>4 DEF EarlyOK, OpenKeyboard, DeviceInit, MaskAt
    <2>6. OthersOK'
      BY <1>6, <2>3, <2>4 DEF IInv, OthersOK, OpenKeyboard, DeviceInit, pagingVars, terminalVars
    <2>7. QED
      BY <2>1, <2>5, <2>6 DEF IInv, Early
  <1>7. CASE Sti
    <2>1. /\ Chain(frames') /\ frames'[1] = "initialize_paging"
          /\ frames[1] = "sti"
      BY <1>1, <1>7, EarlyBecome DEF Sti, BootStages
    <2>2. irq_mask = Lines \ Opened /\ imr = irq_mask
      BY <1>1, <2>1 DEF EarlyOK, MaskAt
    <2>3. irq_mask' = Lines \ Opened /\ imr' = irq_mask'
      BY <1>7, <2>2 DEF Sti, controllerVars
    <2>4. iflag' /\ isr' = {} /\ idt_loaded' /\ vectors' = InitVectors
      BY <1>1, <1>7, <2>1 DEF EarlyOK, Sti, controllerVars
    <2>5. LateOK'
      BY <2>3, <2>4 DEF LateOK, Opened, Lines
    <2>6. OthersOK'
      BY <1>7 DEF IInv, OthersOK, Sti, controllerVars, pagingVars, terminalVars
    <2>7. QED
      BY <2>1, <2>5, <2>6 DEF IInv, Early
  <1>8. QED
    BY <1>2, <1>3, <1>4, <1>5, <1>6, <1>7

\* A line interrupts when interrupts are enabled.
LEMMA InterruptFacts == ASSUME IInv, NEW line \in Lines, CanInterrupt(line)
                        PROVE  iflag /\ LateOK /\ frames[1] \notin Early /\ Chain(frames)
  BY DEF IInv, EarlyOK, CanInterrupt

\* A program and its handler run after the boot, the keyboard's line unmasked.
LEMMA PlainTop ==
    ASSUME IInv, Top \notin Early, Top \notin Masking \cup {"pit"}
    PROVE  LateOK /\ frames[1] \notin Early /\ Chain(frames) /\ KEYBOARD_IRQ \notin irq_mask
  <1>1. frames[1] \notin Early /\ Chain(frames)
    BY ChainFacts DEF IInv, Top
  <1>2. LateOK
    BY <1>1 DEF IInv
  <1>3. ~ KeyMasked(frames)
    BY <1>1, TopMasks DEF Top
  <1>4. QED
    BY <1>1, <1>2, <1>3 DEF LateOK

\* The last two stages of the boot.
LEMMA LateBoot == ASSUME IInv, InitializePaging \/ InitTerminals
                  PROVE  IInv'
  <1>1. /\ LateOK /\ frames[1] \notin Early /\ Chain(frames) /\ KEYBOARD_IRQ \notin irq_mask
        /\ Top \in {"initialize_paging", "init_terminals"}
    <2>1. Top \in {"initialize_paging", "init_terminals"}
      BY DEF InitializePaging, InitTerminals
    <2>2. QED
      BY <2>1, PlainTop DEF Early, Masking
  <1>2. frames \in Seq(Activities) /\ Len(frames) = 1
    BY <1>1, ChainFacts DEF Top, BootStages, Chain
  <1>3. Front(frames) = <<>>
    BY <1>2 DEF Front
  <1>4. UNCHANGED <<iflag, idt_loaded, vectors, irq_mask, imr, isr>>
    BY DEF InitializePaging, InitTerminals, controllerVars
  <1>5. iflag
    BY <1>1 DEF LateOK
  <1>6. CASE InitializePaging
    <2>1. frames' = <<"init_terminals">>
      BY <1>3, <1>6 DEF InitializePaging, Become
    <2>2. Len(frames') = 1 /\ frames'[1] = "init_terminals" /\ frames' # <<>>
          /\ frames' \in Seq(Activities)
      BY <2>1 DEF Activities, BootStages
    <2>3. Chain(frames')
      <3>1. \A i \in 2..Len(frames') : frames'[i] = "pit"
        BY <2>2
      <3>2. QED
        BY <2>2, <3>1 DEF Chain, BootStages
    <2>4. LateOK'
      BY <1>1, <1>4, <1>5 DEF LateOK
    <2>5. OthersOK'
      BY <1>4, <1>6 DEF IInv, OthersOK, InitializePaging, terminalVars
    <2>6. QED
      BY <2>2, <2>3, <2>4, <2>5 DEF IInv, Early
  <1>7. CASE InitTerminals
    <2>1. frames' = <<"launched", "user">>
      BY <1>3, <1>7 DEF InitTerminals
    <2>2. /\ Len(frames') = 2 /\ frames'[1] = "launched" /\ frames'[2] = "user"
          /\ frames' # <<>> /\ frames' \in Seq(Activities)
      BY <2>1 DEF Activities, BootStages
    <2>3. Chain(frames')
      <3>1. \A i \in 2..Len(frames') : frames'[i] \notin BootStages
        BY <2>2 DEF BootStages
      <3>2. QED
        BY <2>2, <3>1 DEF Chain, BootStages, Early
    <2>4. LateOK'
      BY <1>1, <1>4, <1>5 DEF LateOK
    <2>5. OthersOK'
      BY <1>4, <1>7, SizesAssumption DEF IInv, OthersOK, InitTerminals, pagingVars, Terminals
    <2>6. QED
      BY <2>2, <2>3, <2>4, <2>5 DEF IInv, Early
  <1>8. QED
    BY <1>6, <1>7

\* What programs do.
LEMMA ProgramSteps == ASSUME IInv, Program
                      PROVE  IInv'
  <1>1. Top = "user"
    BY DEF Program, Execute, Halt, ClockCall
  <1>2. LateOK /\ frames[1] \notin Early /\ Chain(frames) /\ KEYBOARD_IRQ \notin irq_mask
    BY <1>1, PlainTop DEF Early, Masking
  <1>3. frames[1] = "launched" /\ iflag
    BY <1>1, <1>2, ChainFacts DEF Top, LateOK, BootStages
  <1>4. UNCHANGED <<iflag, idt_loaded, vectors, isr, paging, kernel_mapped, is_in_use_flag,
                    cur_term_id>>
    BY DEF Program, Execute, Halt, ClockCall, controllerVars, pagingVars, terminalVars
  <1>5. /\ irq_mask' \in {irq_mask, irq_mask \ {RTC_IRQ}, irq_mask \cup {RTC_IRQ}}
        /\ (imr' = imr /\ irq_mask' = irq_mask) \/ imr' = irq_mask'
    <2>1. RTC_IRQ \in Lines /\ imr = irq_mask /\ irq_mask \subseteq Lines
      BY <1>2 DEF LateOK, RTC_IRQ, Lines
    <2>2. CASE Execute \/ Halt
      BY <2>2 DEF Execute, Halt, controllerVars
    <2>3. CASE ClockCall
      BY <2>1, <2>3, MaskFacts DEF ClockCall
    <2>4. QED
      BY <2>2, <2>3 DEF Program
  <1>6. /\ imr' = irq_mask' /\ irq_mask' \subseteq Lines /\ Lines \ Opened \subseteq irq_mask'
        /\ PIT_IRQ \notin irq_mask' /\ SLAVE_IRQ \notin irq_mask' /\ KEYBOARD_IRQ \notin irq_mask'
    BY <1>2, <1>5 DEF LateOK, Opened, Lines, PIT_IRQ, SLAVE_IRQ, KEYBOARD_IRQ, RTC_IRQ
  <1>7. Chain(frames') /\ frames'[1] = "launched"
    <2>1. CASE Execute
      BY <1>2, <1>3, <2>1, AppendFacts DEF Execute, Suspended, Activities, BootStages, Early
    <2>2. CASE Halt
      BY <1>2, <1>3, <2>2, HaltFacts DEF Halt, Booted
    <2>3. CASE ClockCall
      BY <1>2, <1>3, <2>3 DEF ClockCall
    <2>4. QED
      BY <2>1, <2>2, <2>3 DEF Program
  <1>8. LateOK'
    BY <1>2, <1>3, <1>4, <1>6 DEF LateOK
  <1>9. OthersOK'
    BY <1>4, <1>6 DEF IInv, OthersOK
  <1>10. QED
    BY <1>7, <1>8, <1>9 DEF IInv, Early

\* A handler that runs to its end with interrupts disabled, wherever it leaves the
\* chain.
LEMMA AtOnce ==
    ASSUME IInv, NEW line \in {KEYBOARD_IRQ, RTC_IRQ}, CanInterrupt(line),
           DisableAndEnableIrq(line), isr' = AfterEoi(InService(line), line),
           UNCHANGED <<iflag, idt_loaded, vectors, pagingVars, terminalVars>>,
           \/ frames' = frames
           \/ /\ line = KEYBOARD_IRQ
              /\ Chain(frames') /\ frames'[1] = "launched"
    PROVE  IInv'
  <1>1. line \in Lines /\ line # PIT_IRQ /\ line # SLAVE_IRQ /\ line \in Opened
    BY DEF KEYBOARD_IRQ, RTC_IRQ, PIT_IRQ, SLAVE_IRQ, Lines, Opened
  <1>2. iflag /\ LateOK /\ frames[1] \notin Early /\ Chain(frames)
    BY <1>1, InterruptFacts
  <1>3. irq_mask' = irq_mask \ {line} /\ imr' = irq_mask'
    BY <1>1, <1>2, MaskFacts DEF LateOK
  <1>4. isr' = {}
    BY <1>1, <1>2, EoiFacts DEF LateOK
  <1>5. /\ irq_mask' \subseteq Lines /\ Lines \ Opened \subseteq irq_mask'
        /\ PIT_IRQ \notin irq_mask' /\ SLAVE_IRQ \notin irq_mask'
    BY <1>1, <1>2, <1>3 DEF LateOK
  <1>6. KEYBOARD_IRQ \in irq_mask' => KeyMasked(frames')
    BY <1>2, <1>3 DEF LateOK
  <1>7. Chain(frames') /\ frames'[1] \notin Early
    BY <1>2 DEF Early
  <1>8. LateOK'
    BY <1>2, <1>3, <1>4, <1>5, <1>6 DEF LateOK
  <1>9. OthersOK'
    BY <1>3, <1>5 DEF IInv, OthersOK, pagingVars, terminalVars
  <1>10. QED
    BY <1>7, <1>8, <1>9 DEF IInv

\* What keys do.
LEMMA KeySteps == ASSUME IInv, Key
                  PROVE  IInv'
  <1>1. CASE PressModifier \/ PressOtherKey
    <2>1. /\ CanInterrupt(KEYBOARD_IRQ) /\ DisableAndEnableIrq(KEYBOARD_IRQ)
          /\ isr' = AfterEoi(InService(KEYBOARD_IRQ), KEYBOARD_IRQ)
          /\ UNCHANGED <<iflag, idt_loaded, vectors, pagingVars, terminalVars>>
          /\ frames' = frames
      BY <1>1 DEF PressModifier, PressOtherKey, HandledAtOnce
    <2>2. QED
      BY <2>1, AtOnce
  <1>2. CASE CtrlC
    <2>1. /\ CanInterrupt(KEYBOARD_IRQ) /\ DisableAndEnableIrq(KEYBOARD_IRQ)
          /\ isr' = AfterEoi(InService(KEYBOARD_IRQ), KEYBOARD_IRQ)
          /\ UNCHANGED <<iflag, idt_loaded, vectors, pagingVars, terminalVars>>
          /\ frames' = AfterHalt /\ Booted
      BY <1>2 DEF CtrlC, HandledAtOnce
    <2>2. Chain(AfterHalt) /\ AfterHalt[1] = "launched"
      BY <2>1, HaltFacts DEF IInv
    <2>3. QED
      BY <2>1, <2>2, AtOnce
  <1>3. ASSUME NEW t \in Terminals, ChangeTerminal(t) \/ LaunchTerminal(t)
        PROVE  IInv'
    <2>1. PICK a \in {"eoi", "launch"} : AltFn(t, a)
      BY <1>3 DEF ChangeTerminal, LaunchTerminal
    <2>2. is_in_use_flag' \in [Terminals -> BOOLEAN]
      BY <1>3 DEF ChangeTerminal, LaunchTerminal, IInv, OthersOK
    <2>3. KEYBOARD_IRQ \in Lines
      BY DEF KEYBOARD_IRQ, Lines
    <2>4. CanInterrupt(KEYBOARD_IRQ) /\ DisableIrq(KEYBOARD_IRQ) /\ Booted
      BY <2>1 DEF AltFn
    <2>5. iflag /\ LateOK /\ frames[1] \notin Early /\ Chain(frames)
      BY <2>3, <2>4, InterruptFacts
    <2>6. irq_mask' = irq_mask \cup {KEYBOARD_IRQ} /\ imr' = irq_mask'
      BY <2>3, <2>4, <2>5, MaskFacts DEF LateOK
    <2>7. isr' = {}
      BY <2>1, <2>3, <2>5, EoiFacts DEF AltFn, EarlyEoi, LateOK
    <2>8. /\ frames' = Append(frames, a) /\ cur_term_id' = t
          /\ UNCHANGED <<iflag, idt_loaded, vectors, paging, kernel_mapped>>
      BY <2>1 DEF AltFn, Suspended, pagingVars
    <2>9. Chain(frames') /\ frames'[1] \notin Early /\ KeyMasked(frames')
      <3>1. a \in Activities \ BootStages /\ a \in Masking /\ frames[1] \notin BootStages
        BY <2>4 DEF Activities, HandlerPlaces, BootStages, Masking, Booted
      <3>2. QED
        BY <2>5, <2>8, <3>1, AppendFacts
    <2>10. /\ irq_mask' \subseteq Lines /\ Lines \ Opened \subseteq irq_mask'
           /\ PIT_IRQ \notin irq_mask' /\ SLAVE_IRQ \notin irq_mask'
      BY <2>3, <2>5, <2>6 DEF LateOK, PIT_IRQ, SLAVE_IRQ, KEYBOARD_IRQ
    <2>11. LateOK'
      BY <2>5, <2>6, <2>7, <2>8, <2>9, <2>10 DEF LateOK
    <2>12. OthersOK'
      BY <2>2, <2>6, <2>8, <2>10 DEF IInv, OthersOK
    <2>13. QED
      BY <2>9, <2>11, <2>12 DEF IInv
  <1>4. QED
    BY <1>1, <1>2, <1>3 DEF Key

\* The timer's handler, on top of anything.
LEMMA TimerSteps == ASSUME IInv, PitInterrupt \/ PitReturns
                    PROVE  IInv'
  <1>1. UNCHANGED <<iflag, idt_loaded, vectors, irq_mask, imr, paging, kernel_mapped,
                    is_in_use_flag, cur_term_id>>
    BY DEF PitInterrupt, PitReturns, controllerVars, pagingVars, terminalVars
  <1>2. OthersOK'
    BY <1>1 DEF IInv, OthersOK
  <1>3. CASE PitInterrupt
    <2>1. PIT_IRQ \in Lines
      BY DEF PIT_IRQ, Lines
    <2>2. iflag /\ LateOK /\ frames[1] \notin Early /\ Chain(frames)
      BY <1>3, <2>1, InterruptFacts DEF PitInterrupt
    <2>3. isr' = {}
      BY <1>3, <2>1, <2>2, EoiFacts DEF PitInterrupt, LateOK
    <2>4. /\ Chain(frames') /\ frames'[1] \notin Early
          /\ KeyMasked(frames) => KeyMasked(frames')
      BY <1>3, <2>2, AppendFacts DEF PitInterrupt, Suspended, Activities, BootStages
    <2>5. LateOK'
      BY <1>1, <2>2, <2>3, <2>4 DEF LateOK
    <2>6. QED
      BY <1>2, <2>4, <2>5 DEF IInv
  <1>4. CASE PitReturns
    <2>1. Last(frames) = "pit" /\ Chain(frames) /\ frames' = Front(frames)
      BY <1>4 DEF PitReturns, Top, IInv
    <2>2. frames[1] \notin Early /\ Len(frames) >= 2
      BY <2>1, ChainFacts
    <2>3. LateOK
      BY <2>2 DEF IInv
    <2>4. frames[1] = "launched" => Len(frames) >= 3
      <3>1. frames[1] = "launched" => frames[2] = "user"
        BY <2>1 DEF Chain, BootStages
      <3>2. Last(frames) = frames[Len(frames)]
        BY DEF Last
      <3>3. Len(frames) \in Nat
        BY <2>1, ChainFacts
      <3>4. QED
        BY <2>1, <2>2, <3>1, <3>2, <3>3
    <2>5. /\ Chain(frames') /\ frames'[1] \notin Early
          /\ KeyMasked(frames) => KeyMasked(frames')
      BY <2>1, <2>2, <2>4, FrontFacts
    <2>6. iflag
      BY <2>1, <2>3 DEF LateOK, Top
    <2>7. isr' = {}
      BY <1>4, <2>3 DEF PitReturns, controllerVars, LateOK
    <2>8. LateOK'
      BY <1>1, <2>3, <2>5, <2>6, <2>7 DEF LateOK
    <2>9. QED
      BY <1>2, <2>5, <2>8 DEF IInv
  <1>5. QED
    BY <1>3, <1>4

\* The rest of the keyboard's handler, once it has enabled interrupts.
LEMMA HandlerSteps ==
    ASSUME IInv, \/ LaunchEnables \/ LaunchExecutes \/ HandlerAcknowledges
                 \/ HandlerEnables \/ HandlerReturns
    PROVE  IInv'
  <1>1. Top \in HandlerPlaces
    BY DEF LaunchEnables, LaunchExecutes, HandlerAcknowledges, HandlerEnables, HandlerReturns,
           Enables, HandlerPlaces
  <1>2. /\ Chain(frames) /\ frames[1] = "launched" /\ Len(frames) >= 3
        /\ Len(frames) \in Nat /\ frames \in Seq(Activities)
    BY <1>1, ChainFacts DEF IInv, Chain, Top, HandlerPlaces, BootStages
  <1>3. LateOK
    BY <1>2 DEF IInv, Early
  <1>4. Chain(Front(frames)) /\ Front(frames)[1] = "launched"
    BY <1>1, <1>2, FrontFacts DEF Top
  <1>5. UNCHANGED <<idt_loaded, vectors, paging, kernel_mapped, is_in_use_flag, cur_term_id>>
    BY DEF LaunchEnables, LaunchExecutes, HandlerAcknowledges, HandlerEnables, HandlerReturns,
           Enables, controllerVars, pagingVars, terminalVars
  <1>6. ASSUME NEW a \in Activities \ BootStages, Become(a)
        PROVE  /\ Chain(frames') /\ frames'[1] = "launched" /\ Last(frames') = a
               /\ a \in Masking => KeyMasked(frames')
    BY <1>4, <1>6, AppendFacts DEF Become, BootStages, Early
  <1>7. KEYBOARD_IRQ \in Lines /\ KEYBOARD_IRQ \in Opened
    BY DEF KEYBOARD_IRQ, Lines, Opened
  <1>8. ASSUME NEW from, NEW to \in {"execute", "return"}, Enables(from, to),
               iflag \/ to = "return"
        PROVE  IInv'
    <2>1. /\ EnableIrq(KEYBOARD_IRQ) /\ Become(to) /\ UNCHANGED <<iflag, isr>>
      BY <1>8 DEF Enables
    <2>2. irq_mask' = irq_mask \ {KEYBOARD_IRQ} /\ imr' = irq_mask'
      BY <1>3, <1>7, <2>1, MaskFacts DEF LateOK
    <2>3. Chain(frames') /\ frames'[1] = "launched" /\ Last(frames') = to
      BY <1>6, <2>1 DEF Activities, HandlerPlaces, BootStages
    <2>4. LateOK'
      BY <1>3, <1>5, <1>7, <1>8, <2>1, <2>2, <2>3 DEF LateOK, Top
    <2>5. OthersOK'
      BY <1>3, <1>5, <2>1, <2>2 DEF IInv, OthersOK, LateOK
    <2>6. QED
      BY <2>3, <2>4, <2>5 DEF IInv, Early
  <1>9. CASE LaunchEnables
    <2>1. iflag
      BY <1>3, <1>9 DEF LateOK, LaunchEnables, Enables
    <2>2. QED
      BY <1>8, <1>9, <2>1 DEF LaunchEnables
  <1>10. CASE HandlerEnables
    BY <1>8, <1>10 DEF HandlerEnables
  <1>11. CASE LaunchExecutes
    <2>1. KEYBOARD_IRQ \notin irq_mask
      BY <1>2, <1>3, <1>11, TopMasks DEF LateOK, LaunchExecutes, Top, Masking
    <2>2. UNCHANGED <<irq_mask, imr, isr>>
      BY <1>11 DEF LaunchExecutes, controllerVars
    <2>3. CASE Become("eoi") /\ iflag' = FALSE
      <3>1. Chain(frames') /\ frames'[1] = "launched" /\ Last(frames') = "eoi"
        BY <1>6, <2>3 DEF Activities, HandlerPlaces, BootStages
      <3>2. LateOK'
        BY <1>3, <1>5, <2>1, <2>2, <3>1 DEF LateOK, Top
      <3>3. OthersOK'
        BY <1>5, <2>2, <2>3 DEF IInv, OthersOK
      <3>4. QED
        BY <3>1, <3>2, <3>3 DEF IInv, Early
    <2>4. CASE frames' = Front(frames) \o <<"launched", "user">> /\ iflag' = TRUE
      <3>1. Chain(Append(Front(frames), "launched"))
            /\ Append(Front(frames), "launched")[1] = "launched"
        BY <1>4, AppendFacts DEF Activities, BootStages, Early
      <3>2. frames' = Append(Append(Front(frames), "launched"), "user")
        <4>1. Front(frames) \in Seq(Activities)
          BY <1>4 DEF Chain
        <4>2. QED
          BY <2>4, <4>1
      <3>3. Chain(frames') /\ frames'[1] = "launched"
        BY <3>1, <3>2, AppendFacts DEF Activities, BootStages, Early
      <3>4. LateOK'
        BY <1>3, <1>5, <2>1, <2>2, <2>4 DEF LateOK
      <3>5. OthersOK'
        BY <1>5, <2>2, <2>4 DEF IInv, OthersOK
      <3>6. QED
        BY <3>3, <3>4, <3>5 DEF IInv, Early
    <2>5. QED
      BY <1>11, <2>3, <2>4 DEF LaunchExecutes
  <1>12. CASE HandlerAcknowledges
    <2>1. isr' = {} /\ UNCHANGED <<iflag, irq_mask, imr>>
      BY <1>3, <1>12 DEF HandlerAcknowledges, LateOK, AfterEoi
    <2>2. Chain(frames') /\ frames'[1] = "launched" /\ Last(frames') = "enable"
          /\ KeyMasked(frames')
      BY <1>6, <1>12 DEF HandlerAcknowledges, Activities, HandlerPlaces, BootStages, Masking
    <2>3. LateOK'
      BY <1>3, <1>5, <2>1, <2>2 DEF LateOK, Top
    <2>4. OthersOK'
      BY <1>5, <2>1 DEF IInv, OthersOK
    <2>5. QED
      BY <2>2, <2>3, <2>4 DEF IInv, Early
  <1>13. CASE HandlerReturns
    <2>1. KEYBOARD_IRQ \notin irq_mask
      BY <1>2, <1>3, <1>13, TopMasks DEF LateOK, HandlerReturns, Top, Masking
    <2>2. UNCHANGED <<irq_mask, imr, isr>> /\ iflag' = TRUE /\ frames' = Front(frames)
      BY <1>13 DEF HandlerReturns, controllerVars
    <2>3. LateOK'
      BY <1>3, <1>5, <2>1, <2>2 DEF LateOK
    <2>4. OthersOK'
      BY <1>5, <2>2 DEF IInv, OthersOK
    <2>5. QED
      BY <1>4, <2>2, <2>3, <2>4 DEF IInv, Early
  <1>14. QED
    BY <1>9, <1>10, <1>11, <1>12, <1>13

LEMMA IInvInvariance == Spec => []IInv
  <1>1. Init => IInv
    BY InitIInv
  <1>2. IInv /\ [Next]_vars => IInv'
    <2> SUFFICES ASSUME IInv, [Next]_vars PROVE IInv'
      OBVIOUS
    <2>1. CASE UNCHANGED vars
      <3>1. /\ frames' = frames /\ Top' = Top
            /\ UNCHANGED <<iflag, idt_loaded, vectors, irq_mask, imr, isr, paging,
                           kernel_mapped, is_in_use_flag, cur_term_id>>
        BY <2>1 DEF vars, controllerVars, pagingVars, terminalVars, Top
      <3>2. (EarlyOK => EarlyOK') /\ (LateOK => LateOK') /\ (OthersOK => OthersOK')
        BY <3>1 DEF EarlyOK, LateOK, OthersOK
      <3>3. QED
        BY <3>1, <3>2 DEF IInv
    <2>2. CASE Boot
      BY <2>2, EarlySteps, LateBoot DEF Boot
    <2>3. CASE Program
      BY <2>3, ProgramSteps
    <2>4. CASE Key
      BY <2>4, KeySteps
    <2>5. CASE RtcInterrupt
      <3>1. /\ CanInterrupt(RTC_IRQ) /\ DisableAndEnableIrq(RTC_IRQ)
            /\ isr' = AfterEoi(InService(RTC_IRQ), RTC_IRQ)
            /\ UNCHANGED <<iflag, idt_loaded, vectors, pagingVars, terminalVars>>
            /\ frames' = frames
        BY <2>5 DEF RtcInterrupt
      <3>2. QED
        BY <3>1, AtOnce
    <2>6. CASE Handler /\ ~RtcInterrupt
      BY <2>6, TimerSteps, HandlerSteps DEF Handler
    <2>7. QED
      BY <2>1, <2>2, <2>3, <2>4, <2>5, <2>6 DEF Next, Handler
  <1>3. QED
    BY <1>1, <1>2, PTL DEF Spec

-----------------------------------------------------------------------------
(* The properties.                                                          *)

\* All variables keep their types.  (kernel.c, i8259.c, keyboard.c)
THEOREM TypeCorrect == Spec => []TypeOK
  <1>1. IInv /\ KeysInv => TypeOK
    <2> SUFFICES ASSUME IInv, KeysInv PROVE TypeOK
      OBVIOUS
    <2>1. frames \in Seq(Activities) /\ frames # <<>>
      BY DEF IInv, Chain
    <2>2. irq_mask \subseteq Lines /\ isr \subseteq Lines
      <3>1. CASE frames[1] \in Early
        BY <3>1 DEF IInv, EarlyOK, MaskAt
      <3>2. CASE frames[1] \notin Early
        BY <3>2 DEF IInv, LateOK
      <3>3. QED
        BY <3>1, <3>2
    <2>3. QED
      BY <2>1, <2>2 DEF IInv, OthersOK, KeysInv, TypeOK
  <1>2. QED
    BY <1>1, IInvInvariance, KeysInvariance, PTL

\* Whenever a program runs, the timer, the keyboard and the clock can interrupt it,
\* whatever chain of launches, switches and kills came before.  (keyboard_int_handler,
\* terminal_launch, halt, execute)
THEOREM LinesHeardCorrect == Spec => []LinesHeard
  <1>1. IInv => LinesHeard
    <2> SUFFICES ASSUME IInv, Top = "user"
                 PROVE  iflag /\ isr = {} /\ {PIT_IRQ, KEYBOARD_IRQ, SLAVE_IRQ} \cap imr = {}
      BY DEF LinesHeard
    <2>1. LateOK /\ KEYBOARD_IRQ \notin irq_mask
      BY PlainTop DEF Early, Masking
    <2>2. QED
      BY <2>1 DEF LateOK
  <1>2. QED
    BY <1>1, IInvInvariance, PTL

\* Every line the controllers let through has its own handler at the vector they
\* send, once interrupts are enabled.  (init_idt, i8259_init, entry)
THEOREM InterruptsReachHandlersCorrect == Spec => []InterruptsReachHandlers
  <1>1. IInv => InterruptsReachHandlers
    <2> SUFFICES ASSUME IInv, iflag
                 PROVE  /\ idt_loaded
                        /\ \A line \in Lines \ (imr \cup {SLAVE_IRQ}) :
                              idt[VectorOf(line)] = HandlerFor(line)
      BY DEF InterruptsReachHandlers
    <2>1. LateOK
      BY DEF IInv, EarlyOK
    <2>2. \A line \in Lines \ (imr \cup {SLAVE_IRQ}) : line \in {PIT_IRQ, KEYBOARD_IRQ, RTC_IRQ}
      BY <2>1 DEF LateOK, Opened
    <2>3. /\ VectorOf(PIT_IRQ) = 32 /\ VectorOf(KEYBOARD_IRQ) = 33 /\ VectorOf(RTC_IRQ) = 40
      BY <2>1 DEF LateOK, VectorOf, InitVectors, Master, PIT_IRQ, KEYBOARD_IRQ, RTC_IRQ
    <2>4. idt[32] = "pit_handler" /\ idt[33] = "keyboard_handler" /\ idt[40] = "rtc_handler"
      BY DEF idt, NUM_VEC, EXCEPTION_NUM
    <2>5. /\ HandlerFor(PIT_IRQ) = "pit_handler"
          /\ HandlerFor(KEYBOARD_IRQ) = "keyboard_handler"
          /\ HandlerFor(RTC_IRQ) = "rtc_handler"
      BY DEF HandlerFor, PIT_IRQ, KEYBOARD_IRQ, RTC_IRQ
    <2>6. QED
      BY <2>1, <2>2, <2>3, <2>4, <2>5 DEF LateOK
  <1>2. QED
    BY <1>1, IInvInvariance, PTL

\* The controllers mask what the variables say from the first interrupt on, and the
\* keyboard's line is masked only for a handler that will unmask it.  (enable_irq,
\* disable_irq, keyboard_int_handler)
THEOREM MaskedByHandlerCorrect == Spec => []MaskedByHandler
  <1>1. IInv => MaskedByHandler
    <2> SUFFICES ASSUME IInv, iflag PROVE MaskedByHandler
      BY DEF MaskedByHandler
    <2>1. LateOK
      BY DEF IInv, EarlyOK
    <2>2. QED
      BY <2>1 DEF LateOK, MaskedByHandler, KeyMasked, Masking
  <1>2. QED
    BY <1>1, IInvInvariance, PTL
=============================================================================
