------------------------------ MODULE Keyboard ------------------------------
(***************************************************************************)
(* From key presses to characters: the PS/2 interrupt handler empties the  *)
(* controller (src/kernel/dev/ps2.c), decodes scan codes of set 1 and      *)
(* gives each event to the keyboard's handler (src/kernel/dev/kb.c), which *)
(* keeps the modifiers and writes a byte to the focused process's terminal *)
(* stream for every press of any other key: what one of two tables holds   *)
(* for it, a zero for a key that has no character.                         *)
(***************************************************************************)
EXTENDS Integers, Sequences, FiniteSets, SequencesExt

CONSTANTS PlainKeys,   \* keys of one byte that are no modifiers of the handler
          ExtKeys,     \* keys behind the prefix 0xe0
          KeyLut,      \* k_kb_key_lut and k_kb_shift_key_lut: zero for a key that has
          ShiftKeyLut, \* no character, and behind their ends the memory that follows
          MaxEvents    \* bound: presses and releases

Shifts == {"lshift", "rshift"}

Modifiers == Shifts \cup {"capslock"}
OtherKeys == PlainKeys \cup ExtKeys
Keys == OtherKeys \cup Modifiers

\* The prefix is no key, and no modifier stands behind it.  Every code is one of the
\* scan code table's: a Windows key's or Pause's is read from behind its end.
ASSUME KeyAssumption ==
  /\ "e0" \notin OtherKeys /\ OtherKeys \cap Modifiers = {}
  /\ KeyLut \in [OtherKeys -> 0 .. 255] /\ ShiftKeyLut \in [OtherKeys -> 0 .. 255]

VARIABLES controller,  \* bytes in the controller: [code, up], or the prefix
          left_shift, right_shift, caps_lock,
          typed,       \* bytes written to the stream
          down,        \* keys that are held down
          locked,      \* whether the code of caps lock came an odd number of times
          expected,    \* what the tables hold for the presses so far
          events

kbVars == <<left_shift, right_shift, caps_lock, typed>>
keyboardVars == <<controller, kbVars, down, locked, expected, events>>

KeyboardInit ==
  /\ controller = <<>> /\ typed = <<>> /\ expected = <<>>
  /\ left_shift = FALSE /\ right_shift = FALSE /\ caps_lock = FALSE
  /\ down = {} /\ locked = FALSE /\ events = 0

-----------------------------------------------------------------------------
\* The keyboard.  Some keys behind the prefix bring a shift code of their own along,
\* also behind the prefix; it stands for no key.  A key's bytes come together.
Prefix == [code |-> "e0", up |-> FALSE]
Byte(k, up) == [code |-> k, up |-> up]
BytesOf(k, up, fake) ==
  (IF fake THEN <<Prefix, Byte("lshift", up)>> ELSE <<>>)
    \o (IF k \in ExtKeys THEN <<Prefix, Byte(k, up)>> ELSE <<Byte(k, up)>>)

Char(k, shifted) == IF shifted THEN ShiftKeyLut[k] ELSE KeyLut[k]

\* A key that is held down repeats the codes of its press.
Press(k, fake) ==
  /\ events < MaxEvents /\ (fake => k \in ExtKeys)
  /\ controller' = controller \o BytesOf(k, FALSE, fake)
  /\ down' = down \cup {k}
  /\ locked' = IF k = "capslock" THEN ~locked ELSE locked
  /\ expected' = IF k \in OtherKeys
                   THEN Append(expected, Char(k, down \cap Shifts # {} \/ locked))
                   ELSE expected
  /\ events' = events + 1
  /\ UNCHANGED kbVars

Release(k, fake) ==
  /\ k \in down /\ events < MaxEvents /\ (fake => k \in ExtKeys)
  /\ controller' = controller \o BytesOf(k, TRUE, fake)
  /\ down' = down \ {k}
  /\ events' = events + 1
  /\ UNCHANGED <<kbVars, locked, expected>>

-----------------------------------------------------------------------------
\* k_dev_kb_KeyboardHandler: every key without a case of its own writes a byte.
Toggles_Both(b) == b.code = "capslock"
Toggles(b) == b.code = "capslock" /\ ~b.up
Shifted_Left == left_shift \/ caps_lock
Shifted == left_shift \/ right_shift \/ caps_lock
KeyboardHandler(b) ==
  /\ left_shift' = IF b.code = "lshift" THEN ~b.up ELSE left_shift
  /\ right_shift' = IF b.code = "rshift" THEN ~b.up ELSE right_shift
  /\ caps_lock' = IF Toggles(b) THEN ~caps_lock ELSE caps_lock
  /\ typed' = IF b.code \in OtherKeys /\ ~b.up
                THEN Append(typed, Char(b.code, Shifted)) ELSE typed

\* k_PS2_Scanset1Key: one event, or none for a shift behind the prefix.
Ignored(b) == b.code \in Shifts
Scanset1Key ==
  /\ controller # <<>>
  /\ IF Head(controller) = Prefix
       THEN /\ controller' = Tail(Tail(controller))
            /\ IF Ignored(controller[2]) THEN UNCHANGED kbVars ELSE KeyboardHandler(controller[2])
       ELSE /\ controller' = Tail(controller)
            /\ KeyboardHandler(Head(controller))
  /\ UNCHANGED <<down, locked, expected, events>>

\* The interrupt handler runs Scanset1Key while the output buffer is full; keys may
\* be pressed meanwhile.
KeyboardNext ==
  \/ \E k \in Keys, fake \in BOOLEAN : Press(k, fake) \/ Release(k, fake)
  \/ Scanset1Key

KeyboardSpec == KeyboardInit /\ [][KeyboardNext]_keyboardVars

-----------------------------------------------------------------------------
\* Every press writes one byte, in order, out of the table that the keys held when it
\* was made choose, however late the handler gets to run.  That byte is the key's
\* character, or a zero: Control, Tab, an arrow are seen in the stream as zeros.
CharsAsTyped ==
  /\ IsPrefix(typed, expected)
  /\ controller = <<>> => typed = expected

\* Once the controller is empty the modifiers are those of the keys held down: no
\* prefixed shift sticks and no release is lost.
ModifiersAsHeld ==
  controller = <<>> =>
    /\ left_shift = ("lshift" \in down) /\ right_shift = ("rshift" \in down)
    /\ caps_lock = locked

\* What is written to the stream is what the tables give for the keys as they were
\* pressed, however modifiers and their prefixes interleave.
KeysAsMeant == CharsAsTyped /\ ModifiersAsHeld
=============================================================================
