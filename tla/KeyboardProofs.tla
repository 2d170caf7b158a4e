--------------------------- MODULE KeyboardProofs ---------------------------
(***************************************************************************)
(* Proofs about the circular buffer of kernel/keyboard.c, for a buffer of  *)
(* any size and any keys: the interrupt handler leaves the reader its      *)
(* character, and the buffer implements a bounded queue.                   *)
(***************************************************************************)
EXTENDS Keyboard, TLAPS, SequenceTheorems

\* The positions in the ring without %: at most once around.
Wrapped(i) == IF i < BufferSize THEN i ELSE i - BufferSize

LEMMA Modulo ==
  ASSUME NEW i \in 0 .. 2 * BufferSize - 1
  PROVE  i % BufferSize = Wrapped(i) /\ Wrapped(i) \in Slot
<1> BufferSize \in Nat \ {0, 1}
  BY KeyboardAssumption
<1>1. CASE i < BufferSize
  BY <1>1 DEF Wrapped, Slot
<1>2. CASE i >= BufferSize
  BY <1>2 DEF Wrapped, Slot
<1> QED BY <1>1, <1>2

LEMMA RingFacts ==
  ASSUME TypeOK
  PROVE  /\ \A i \in Slot : Following(i) = Wrapped(i + 1) /\ Following(i) \in Slot
         /\ Used = Wrapped(buffer_end + BufferSize - buffer_start)
         /\ Used \in 0 .. BufferSize - 1
         /\ buffer_start \in Waiting <=> buffer_start # buffer_end
         /\ BufferFull <=> Used = BufferSize - 1
<1> BufferSize \in Nat \ {0, 1} /\ buffer_start \in Slot /\ buffer_end \in Slot
  BY KeyboardAssumption DEF TypeOK
<1>1. ASSUME NEW i \in Slot
      PROVE  Following(i) = Wrapped(i + 1) /\ Following(i) \in Slot
  BY Modulo DEF Following, Slot
<1>2. Used = Wrapped(buffer_end + BufferSize - buffer_start) /\ Used \in 0 .. BufferSize - 1
  <2>1. buffer_end + BufferSize - buffer_start \in 0 .. 2 * BufferSize - 1
    BY DEF Slot
  <2> QED BY <2>1, Modulo DEF Used, Slot
<1>3. buffer_start \in Waiting <=> buffer_start # buffer_end
  <2>1. buffer_start # buffer_end => 0 \in 0 .. Used - 1 /\ (buffer_start + 0) % BufferSize = buffer_start
    BY <1>2, Modulo DEF Slot, Wrapped
  <2>2. buffer_start = buffer_end => 0 .. Used - 1 = {}
    BY <1>2 DEF Slot, Wrapped
  <2> QED BY <2>1, <2>2 DEF Waiting
<1>4. BufferFull <=> Used = BufferSize - 1
  BY <1>1, <1>2 DEF BufferFull, Wrapped, Slot
<1> QED BY <1>1, <1>2, <1>3, <1>4

(* The k-th waiting character, counted from buffer_start.                  *)
LEMMA ContentsFacts ==
  ASSUME TypeOK
  PROVE  /\ Contents \in Seq(Char \cup {NoChar})
         /\ Len(Contents) = Used
         /\ \A k \in 1 .. Used : Contents[k] = keyboard_buffer[Wrapped(buffer_start + k - 1)]
<1> BufferSize \in Nat \ {0, 1} /\ buffer_start \in Slot
  BY KeyboardAssumption DEF TypeOK
<1>1. \A k \in 1 .. Used : /\ (buffer_start + k - 1) % BufferSize = Wrapped(buffer_start + k - 1)
                           /\ Wrapped(buffer_start + k - 1) \in Slot
  BY RingFacts, Modulo DEF Slot
<1>2. Used \in Nat /\ \A k \in 1 .. Used : keyboard_buffer[Wrapped(buffer_start + k - 1)] \in Char \cup {NoChar}
  BY <1>1, RingFacts DEF TypeOK
<1>3. Contents = [k \in 1 .. Used |-> keyboard_buffer[Wrapped(buffer_start + k - 1)]]
  BY <1>1 DEF Contents
<1>4. Contents \in Seq(Char \cup {NoChar})
  BY <1>2, <1>3, SeqDef
<1>5. Len(Contents) = Used
  BY <1>2, <1>3, <1>4, LenProperties
<1> QED BY <1>3, <1>4, <1>5

-----------------------------------------------------------------------------
LEMMA AsciiType ==
  ASSUME NEW k \in Key
  PROVE  Ascii(k) \in Char \cup {NoChar}
BY DEF Ascii, Char

LEMMA StepType == TypeOK /\ [Next]_vars => TypeOK'
<1> SUFFICES ASSUME TypeOK, [Next]_vars PROVE TypeOK'
  OBVIOUS
<1>1. ASSUME NEW k \in Key, KeyPress(k) PROVE TypeOK'
  BY <1>1, AsciiType, RingFacts
     DEF KeyPress, HasChar, PutChar, WakeReader, TypeOK, modifiers, ring, reader
<1>2. CASE ModifierIrq \/ TimerIrq
  BY <1>2 DEF ModifierIrq, TimerIrq, WakeReader, TypeOK, modifiers, ring, reader
<1>3. CASE MainLoop
  BY <1>3, RingFacts
     DEF MainLoop, GetCheck, GetRead, GetAdvance, ShellDone, AdvanceStart, TypeOK,
         modifiers, ring, reader
<1>4. CASE UNCHANGED vars
  BY <1>4 DEF TypeOK, vars, modifiers, ring, reader
<1> QED BY <1>1, <1>2, <1>3, <1>4 DEF Next

LEMMA StepReader == ReaderUndisturbed /\ [Next]_vars => ReaderUndisturbed'
<1> SUFFICES ASSUME ReaderUndisturbed, [Next]_vars PROVE ReaderUndisturbed'
  OBVIOUS
<1>1. TypeOK /\ TypeOK'
  BY StepType DEF ReaderUndisturbed
<1>2. /\ buffer_start \in Waiting <=> buffer_start # buffer_end
      /\ (buffer_start \in Waiting)' <=> (buffer_start # buffer_end)'
  <2>1. buffer_start \in Waiting <=> buffer_start # buffer_end
    BY <1>1, RingFacts
  <2>2. (buffer_start \in Waiting <=> buffer_start # buffer_end)'
    BY <1>1, RingFacts, PTL
  <2> QED BY <2>1, <2>2
<1>3. ASSUME NEW k \in Key, KeyPress(k) PROVE ReaderUndisturbed'
  BY <1>1, <1>2, <1>3
     DEF KeyPress, PutChar, BufferFull, WakeReader, ReaderUndisturbed, TypeOK, ring, reader
<1>4. CASE ModifierIrq \/ TimerIrq
  BY <1>1, <1>2, <1>4 DEF ModifierIrq, TimerIrq, WakeReader, ReaderUndisturbed, ring, reader
<1>5. CASE MainLoop
  BY <1>1, <1>2, <1>5
     DEF MainLoop, GetCheck, GetRead, GetAdvance, ShellDone, ReaderUndisturbed, ring, reader
<1>6. CASE UNCHANGED vars
  BY <1>1, <1>2, <1>6 DEF ReaderUndisturbed, vars, ring, reader
<1> QED BY <1>3, <1>4, <1>5, <1>6 DEF Next

LEMMA InitReader == Init => ReaderUndisturbed
<1> SUFFICES ASSUME Init PROVE ReaderUndisturbed
  OBVIOUS
<1>1. 0 \in Slot
  BY KeyboardAssumption DEF Slot
<1>2. TypeOK
  BY <1>1 DEF Init, TypeOK, modifiers
<1> QED BY <1>2 DEF Init, ReaderUndisturbed

(* However interrupts fall between the steps of keyboard_get_char, the     *)
(* character it found is there until it has returned it.                   *)
THEOREM ReaderIsUndisturbed == Spec => []ReaderUndisturbed
BY InitReader, StepReader, PTL DEF Spec

-----------------------------------------------------------------------------
(* A key in the buffer goes to the end of the queue, a full buffer is a    *)
(* full queue.                                                             *)
LEMMA PutIsAccept ==
  ASSUME TypeOK, TypeOK', NEW ch \in Char, PutChar(ch), UNCHANGED out
  PROVE  Fifo!Accept(ch) \/ Fifo!Refuse
<1> BufferSize \in Nat \ {0, 1} /\ buffer_start \in Slot /\ buffer_end \in Slot
  BY KeyboardAssumption DEF TypeOK
<1>1. CASE BufferFull
  <2>1. Len(Contents) = BufferSize - 1
    BY <1>1, RingFacts, ContentsFacts
  <2>2. Contents' = Contents
    BY <1>1 DEF PutChar, Contents, Used, ring
  <2> QED BY <1>1, <2>1, <2>2 DEF PutChar, Fifo!Refuse
<1>2. CASE ~BufferFull
  <2>1. /\ keyboard_buffer' = [keyboard_buffer EXCEPT ![buffer_end] = ch]
        /\ buffer_end' = Wrapped(buffer_end + 1)
        /\ buffer_start' = buffer_start
        /\ lost' = FALSE
    BY <1>2, RingFacts DEF PutChar
  <2>2. (Used = Wrapped(buffer_end + BufferSize - buffer_start))'
    BY RingFacts, PTL
  <2>3. Used < BufferSize - 1 /\ Used \in Nat /\ Used = Wrapped(buffer_end + BufferSize - buffer_start)
    BY <1>2, RingFacts
  <2>4. Used' = Used + 1
    BY <2>1, <2>2, <2>3 DEF Wrapped, Slot
  <2>5. Wrapped(buffer_start + Used) = buffer_end
    BY <2>3 DEF Wrapped, Slot
  <2>6. /\ Contents \in Seq(Char \cup {NoChar}) /\ Len(Contents) = Used
        /\ \A k \in 1 .. Used : Contents[k] = keyboard_buffer[Wrapped(buffer_start + k - 1)]
    BY ContentsFacts
  <2>7. (/\ Contents \in Seq(Char \cup {NoChar}) /\ Len(Contents) = Used
         /\ \A k \in 1 .. Used : Contents[k] = keyboard_buffer[Wrapped(buffer_start + k - 1)])'
    BY ContentsFacts, PTL
  <2>8. ASSUME NEW k \in 1 .. Used + 1
        PROVE  Contents'[k] = Append(Contents, ch)[k]
    <3>1. CASE k = Used + 1
      <4>1. Contents'[k] = keyboard_buffer'[buffer_end]
        BY <2>1, <2>3, <2>4, <2>5, <2>7, <3>1
      <4> QED BY <2>1, <2>6, <3>1, <4>1, AppendProperties DEF TypeOK
    <3>2. CASE k \in 1 .. Used
      <4>1. Wrapped(buffer_start + k - 1) # buffer_end /\ Wrapped(buffer_start + k - 1) \in Slot
        BY <2>3, <3>2 DEF Wrapped, Slot
      <4>2. Contents'[k] = keyboard_buffer[Wrapped(buffer_start + k - 1)]
        BY <2>1, <2>3, <2>4, <2>7, <3>2, <4>1 DEF TypeOK
      <4> QED BY <2>6, <3>2, <4>2, AppendProperties
    <3>3. k = Used + 1 \/ k \in 1 .. Used
      BY <2>3
    <3> QED BY <3>1, <3>2, <3>3
  <2>9. Contents' = Append(Contents, ch)
    BY <2>3, <2>4, <2>6, <2>7, <2>8, AppendProperties, SeqEqual
  <2> QED BY <2>1, <2>3, <2>6, <2>9 DEF Fifo!Accept
<1> QED BY <1>1, <1>2

(* keyboard_get_char takes the first of the queue.                         *)
LEMMA AdvanceIsTake ==
  ASSUME ReaderUndisturbed, TypeOK', GetAdvance
  PROVE  Fifo!Take
<1> BufferSize \in Nat \ {0, 1} /\ buffer_start \in Slot /\ buffer_end \in Slot /\ TypeOK
  BY KeyboardAssumption DEF TypeOK, ReaderUndisturbed
<1>1. /\ keyboard_buffer' = keyboard_buffer /\ buffer_end' = buffer_end /\ lost' = lost
      /\ buffer_start' = Wrapped(buffer_start + 1)
      /\ out' = keyboard_buffer[buffer_start]
      /\ buffer_start # buffer_end
  BY RingFacts DEF GetAdvance, AdvanceStart, ReaderUndisturbed
<1>2. (Used = Wrapped(buffer_end + BufferSize - buffer_start))'
  BY RingFacts, PTL
<1>3. Used \in 1 .. BufferSize - 1 /\ Used = Wrapped(buffer_end + BufferSize - buffer_start)
  BY <1>1, RingFacts DEF Wrapped, Slot
<1>4. Used' = Used - 1
  BY <1>1, <1>2, <1>3 DEF Wrapped, Slot
<1>5. /\ Contents \in Seq(Char \cup {NoChar}) /\ Len(Contents) = Used
      /\ \A k \in 1 .. Used : Contents[k] = keyboard_buffer[Wrapped(buffer_start + k - 1)]
  BY ContentsFacts
<1>6. (/\ Contents \in Seq(Char \cup {NoChar}) /\ Len(Contents) = Used
       /\ \A k \in 1 .. Used : Contents[k] = keyboard_buffer[Wrapped(buffer_start + k - 1)])'
  BY ContentsFacts, PTL
<1>7. Contents # <<>>
  BY <1>3, <1>5
<1>8. Head(Contents) = keyboard_buffer[buffer_start]
  BY <1>3, <1>5, <1>7 DEF Wrapped, Slot
<1>9. ASSUME NEW k \in 1 .. Used - 1
      PROVE  Contents'[k] = Tail(Contents)[k]
  <2>1. Wrapped(buffer_start' + k - 1) = Wrapped(buffer_start + (k + 1) - 1)
    BY <1>1, <1>3 DEF Wrapped, Slot
  <2>2. Contents[k + 1] = keyboard_buffer[Wrapped(buffer_start + (k + 1) - 1)]
    BY <1>3, <1>5
  <2>3. Contents'[k] = Contents[k + 1]
    BY <1>1, <1>3, <1>4, <1>6, <2>1, <2>2
  <2> QED BY <1>3, <1>5, <1>7, <2>3, HeadTailProperties
<1>10. Contents' = Tail(Contents)
  BY <1>3, <1>4, <1>5, <1>6, <1>7, <1>9, HeadTailProperties, SeqEqual
<1> QED BY <1>1, <1>7, <1>8, <1>10 DEF Fifo!Take

(* What is typed is read once and in order, and dropped only when the      *)
(* buffer is full, for a buffer of any size.                               *)
THEOREM BufferIsFifo == Spec => ImplementsFifo
<1>1. Init => Fifo!Init
  <2> SUFFICES ASSUME Init PROVE Fifo!Init
    OBVIOUS
  <2>1. TypeOK
    BY InitReader DEF ReaderUndisturbed
  <2>2. Used = 0
    BY <2>1, RingFacts, KeyboardAssumption DEF Init, Wrapped
  <2>3. Contents = <<>>
    BY <2>1, <2>2, ContentsFacts, EmptySeq
  <2> QED BY <2>3 DEF Init, Fifo!Init
<1>2. ReaderUndisturbed /\ [Next]_vars => [Fifo!Next]_<<Contents, out, lost>>
  <2> SUFFICES ASSUME ReaderUndisturbed, [Next]_vars
               PROVE  Fifo!Next \/ UNCHANGED <<Contents, out, lost>>
    OBVIOUS
  <2>1. TypeOK /\ TypeOK'
    BY StepType DEF ReaderUndisturbed
  <2>2. ASSUME UNCHANGED <<ring, out, lost>> PROVE UNCHANGED <<Contents, out, lost>>
    BY <2>2 DEF Contents, Used, ring
  <2>3. ASSUME NEW k \in Key, KeyPress(k)
        PROVE  Fifo!Next \/ UNCHANGED <<Contents, out, lost>>
    <3>1. CASE HasChar(k)
      <4>1. Ascii(k) \in Char
        BY <3>1, AsciiType DEF HasChar
      <4>2. PutChar(Ascii(k)) /\ UNCHANGED out
        BY <2>3, <3>1 DEF KeyPress, reader
      <4> QED BY <2>1, <4>1, <4>2, PutIsAccept DEF Fifo!Next
    <3>2. CASE ~HasChar(k)
      BY <2>2, <2>3, <3>2 DEF KeyPress, reader
    <3> QED BY <3>1, <3>2
  <2>4. CASE ModifierIrq \/ TimerIrq \/ GetCheck \/ GetRead \/ ShellDone
    BY <2>2, <2>4 DEF ModifierIrq, TimerIrq, GetCheck, GetRead, ShellDone, reader
  <2>5. CASE GetAdvance
    BY <2>1, <2>5, AdvanceIsTake DEF Fifo!Next
  <2>6. CASE UNCHANGED vars
    BY <2>2, <2>6 DEF vars, reader
  <2> QED BY <2>3, <2>4, <2>5, <2>6 DEF Next, MainLoop
<1> QED BY <1>1, <1>2, ReaderIsUndisturbed, PTL DEF Spec, ImplementsFifo, Fifo!Spec
=============================================================================
