------------------------------ MODULE Keyboard ------------------------------
(***************************************************************************)
(* The keyboard driver, kernel/keyboard.c, and its only reader, the main   *)
(* loop of kernel_main: hlt, then one keyboard_get_char, then the shell's  *)
(* work on the character.                                                  *)
(*                                                                         *)
(* IRQ1 runs keyboard_handler between any two steps of the main loop; the  *)
(* handler itself runs with interrupts off, so it is one step.  The reader *)
(* is not: keyboard_get_char reads buffer_start and buffer_end, reads the  *)
(* character, and moves buffer_start in separate steps, with interrupts    *)
(* on.  hlt returns only at an interrupt that comes after it started; the  *)
(* timer (IRQ0) interrupts 100 times a second.                             *)
(***************************************************************************)
EXTENDS Naturals, Sequences

CONSTANTS BufferSize,  (* KEYBOARD_BUFFER_SIZE: 256 in the driver          *)
          Letters,     (* keys that Caps Lock acts on                      *)
          Symbols,     (* the other keys with a character                  *)
          CtrlCombos,  (* the keys with a meaning under Ctrl: P and N      *)
          Silent,      (* keys without a character: function keys, arrows  *)
          NoChar       (* 0: no character                                  *)

ASSUME KeyboardAssumption == /\ BufferSize \in Nat \ {0, 1}
                             /\ CtrlCombos \subseteq Letters

VARIABLES shift_pressed, caps_lock, ctrl_pressed,
          keyboard_buffer, buffer_start, buffer_end,
          pc,    (* the next step of the main loop                         *)
          c,     (* the character keyboard_get_char has read               *)
          out,   (* the last character it returned                         *)
          lost   (* whether the last character typed was dropped           *)

modifiers == <<shift_pressed, caps_lock, ctrl_pressed>>
ring == <<keyboard_buffer, buffer_start, buffer_end>>
reader == <<c, out>>
vars == <<modifiers, ring, pc, reader, lost>>

Slot == 0 .. BufferSize - 1
Key == Letters \cup Symbols \cup Silent
Char == Key \X {"plain", "shifted", "ctrl"}

Following(i) == (i + 1) % BufferSize

\* The occupied slots, from buffer_start up to buffer_end, wrapping around.
Used == (buffer_end + BufferSize - buffer_start) % BufferSize
Waiting == { (buffer_start + k) % BufferSize : k \in 0 .. Used - 1 }
Contents == [k \in 1 .. Used |-> keyboard_buffer[(buffer_start + k - 1) % BufferSize]]

-----------------------------------------------------------------------------
Init ==
  /\ shift_pressed = FALSE /\ caps_lock = FALSE /\ ctrl_pressed = FALSE
  /\ keyboard_buffer = [i \in Slot |-> NoChar]
  /\ buffer_start = 0
  /\ buffer_end = 0
  /\ pc = "hlt"
  /\ c = NoChar
  /\ out = NoChar
  /\ lost = FALSE

\* Any interrupt ends a hlt that is under way; one that comes earlier does not.
WakeReader_TimerIgnored == pc' = pc
WakeReader == pc' = IF pc = "hlt" THEN "check" ELSE pc

\* The character of a key press: Ctrl first, then Shift, then Caps Lock.
Ascii(k) ==
  IF k \in Silent \/ (ctrl_pressed /\ k \notin CtrlCombos) THEN NoChar
  ELSE IF ctrl_pressed THEN <<k, "ctrl">>
  ELSE IF shift_pressed \/ (caps_lock /\ k \in Letters) THEN <<k, "shifted">>
  ELSE <<k, "plain">>

HasChar(k) == Ascii(k) # NoChar

BufferFull_NeverChecked == FALSE
BufferFull == Following(buffer_end) = buffer_start

PutChar(ch) ==
  IF BufferFull
  THEN UNCHANGED ring /\ lost' = TRUE
  ELSE /\ keyboard_buffer' = [keyboard_buffer EXCEPT ![buffer_end] = ch]
       /\ buffer_end' = Following(buffer_end)
       /\ lost' = FALSE
       /\ UNCHANGED buffer_start

KeyPress(k) ==
  /\ IF HasChar(k) THEN PutChar(Ascii(k)) ELSE UNCHANGED <<ring, lost>>
  /\ WakeReader
  /\ UNCHANGED <<modifiers, reader>>

\* Presses and releases of the modifier keys; any other release changes nothing.
ModifierIrq ==
  /\ \/ shift_pressed' \in BOOLEAN /\ UNCHANGED <<caps_lock, ctrl_pressed>>
     \/ ctrl_pressed' \in BOOLEAN /\ UNCHANGED <<caps_lock, shift_pressed>>
     \/ caps_lock' = ~caps_lock /\ UNCHANGED <<shift_pressed, ctrl_pressed>>
  /\ WakeReader
  /\ UNCHANGED <<ring, reader, lost>>

\* IRQ0, seen from here: it wakes the main loop.
TimerIrq ==
  /\ WakeReader
  /\ UNCHANGED <<modifiers, ring, reader, lost>>

-----------------------------------------------------------------------------
\* keyboard_get_char, one step per access to the shared variables.
GetCheck ==
  /\ pc = "check"
  /\ pc' = IF buffer_start = buffer_end THEN "hlt" ELSE "read"
  /\ UNCHANGED <<modifiers, ring, reader, lost>>

GetRead ==
  /\ pc = "read"
  /\ c' = keyboard_buffer[buffer_start]
  /\ pc' = "advance"
  /\ UNCHANGED <<modifiers, ring, out, lost>>

AdvanceStart_Forgotten == buffer_start
AdvanceStart == Following(buffer_start)

GetAdvance ==
  /\ pc = "advance"
  /\ buffer_start' = AdvanceStart
  /\ out' = c
  /\ c' = NoChar
  /\ pc' = "shell"
  /\ UNCHANGED <<modifiers, keyboard_buffer, buffer_end, lost>>

\* The shell's work on the character; meanwhile keys keep arriving.
ShellDone ==
  /\ pc = "shell"
  /\ pc' = "hlt"
  /\ UNCHANGED <<modifiers, ring, reader, lost>>

MainLoop == GetCheck \/ GetRead \/ GetAdvance \/ ShellDone

Next == (\E k \in Key : KeyPress(k)) \/ ModifierIrq \/ TimerIrq \/ MainLoop

\* The CPU keeps executing the main loop, and the timer keeps ticking.
Fairness == WF_vars(MainLoop) /\ WF_vars(TimerIrq)

Spec == Init /\ [][Next]_vars /\ Fairness

-----------------------------------------------------------------------------
TypeOK ==
  /\ modifiers \in BOOLEAN \X BOOLEAN \X BOOLEAN
  /\ keyboard_buffer \in [Slot -> Char \cup {NoChar}]
  /\ buffer_start \in Slot
  /\ buffer_end \in Slot
  /\ pc \in {"hlt", "check", "read", "advance", "shell"}
  /\ c \in Char \cup {NoChar}
  /\ out \in Char \cup {NoChar}
  /\ lost \in BOOLEAN

(* While keyboard_get_char is between its test and its last assignment,    *)
(* no interrupt takes the character away, overwrites it or makes the       *)
(* buffer look empty: what it returns is what it found at buffer_start.    *)
ReaderUndisturbed ==
  /\ TypeOK
  /\ pc \in {"read", "advance"} => buffer_start \in Waiting
  /\ pc = "advance" => c = keyboard_buffer[buffer_start]

(* The circular buffer is a FIFO of BufferSize - 1 characters, in spite of *)
(* the interrupts: what is typed is read once and in order, and dropped    *)
(* only when the buffer is full.                                           *)
Fifo == INSTANCE BoundedFifo
          WITH Items <- Char, Capacity <- BufferSize - 1, Nothing <- NoChar,
               queue <- Contents

ImplementsFifo == Fifo!Spec

(* A character in the buffer is read eventually.  A key that arrives after *)
(* keyboard_get_char answered 0 and before hlt does not end that hlt: only *)
(* a later interrupt, in the end the timer's, does.                        *)
EveryKeyIsRead == \A i \in Slot : i \in Waiting ~> i \notin Waiting
=============================================================================
