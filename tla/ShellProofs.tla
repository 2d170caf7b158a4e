----------------------------- MODULE ShellProofs -----------------------------
(***************************************************************************)
(* Proofs about the line editor and the history ring of kernel/kernel.c,   *)
(* for a ring and lines of any size: what is browsed is on the line, the   *)
(* ring with its counters implements the list of the last commands, and a  *)
(* line is split into its words.                                           *)
(***************************************************************************)
EXTENDS Shell, FiniteSetTheorems, SequenceTheorems, WellFoundedInduction, TLAPS

(* Division with remainder.                                                *)
LEMMA Division ==
  ASSUME NEW i \in Nat, NEW n \in Nat \ {0}
  PROVE  i = n * (i \div n) + (i % n) /\ i \div n \in Nat
OBVIOUS

(* Positions less than a turn of the ring apart are in different slots.    *)
LEMMA SlotsApart ==
  ASSUME NEW i \in Nat, NEW j \in Nat, i < j, j < i + HistorySize
  PROVE  i % HistorySize # j % HistorySize
<1> HistorySize \in Nat \ {0}
  BY ShellAssumption
<1> SUFFICES ASSUME i % HistorySize = j % HistorySize PROVE FALSE
  OBVIOUS
<1>1. /\ i = HistorySize * (i \div HistorySize) + (i % HistorySize)
      /\ j = HistorySize * (j \div HistorySize) + (j % HistorySize)
      /\ i \div HistorySize \in Nat /\ j \div HistorySize \in Nat
  BY Division
<1> DEFINE turns == (j \div HistorySize) - (i \div HistorySize)
<1>2. j - i = HistorySize * turns /\ turns \in Int
  BY <1>1
<1> HIDE DEF turns
<1>3. turns >= 1 => HistorySize * turns >= HistorySize
  BY <1>2
<1>4. turns <= 0 => HistorySize * turns <= 0
  BY <1>2
<1> QED BY <1>2, <1>3, <1>4

LEMMA SlotType ==
  ASSUME NEW i \in Nat
  PROVE  i % HistorySize \in Slot
BY ShellAssumption DEF Slot

(* The length of the list that the ring stands for.                        *)
LEMMA OldestFacts ==
  ASSUME TypeOK
  PROVE  /\ Oldest \in Nat /\ Oldest <= history_count
         /\ history_count - Oldest <= HistorySize
         /\ history_count < HistorySize => Oldest = 0
         /\ history_count >= HistorySize => Oldest = history_count - HistorySize
         /\ history_count > 0 => Oldest < history_count
BY ShellAssumption DEF TypeOK, Oldest

-----------------------------------------------------------------------------
(* A line is a sequence of characters that is not too long.                *)
LEMMA LineIsSeq ==
  ASSUME NEW s \in Line
  PROVE  s \in Seq(Char) /\ Len(s) \in 0 .. MaxLine
<1>1. PICK n \in 0 .. MaxLine : s \in [1 .. n -> Char]
  BY DEF Line
<1>2. n \in Nat /\ s \in Seq(Char)
  BY <1>1, ShellAssumption, SeqDef
<1>3. Len(s) \in Nat /\ DOMAIN s = 1 .. Len(s) /\ DOMAIN s = 1 .. n
  BY <1>1, <1>2, LenProperties
<1> DEFINE len == Len(s)
<1>4. len \in Nat /\ 1 .. len = 1 .. n
  BY <1>3
<1> HIDE DEF len
<1>5. len <= n
  <2> SUFFICES ASSUME len > n PROVE FALSE
    BY <1>2, <1>4
  <2>1. len \in 1 .. len
    BY <1>2, <1>4
  <2> QED BY <1>2, <1>4, <2>1
<1>6. len \in 0 .. MaxLine
  BY <1>1, <1>4, <1>5, ShellAssumption
<1> QED BY <1>2, <1>6 DEF len

LEMMA SeqIsLine ==
  ASSUME NEW s \in Seq(Char), Len(s) <= MaxLine
  PROVE  s \in Line
<1>1. Len(s) \in 0 .. MaxLine /\ s \in [1 .. Len(s) -> Char]
  BY LenProperties, ShellAssumption
<1> QED BY <1>1 DEF Line

LEMMA CutType ==
  ASSUME NEW s \in Seq(Char)
  PROVE  Cut(s, MaxLine) \in Line
<1> DEFINE n == IF Len(s) > MaxLine THEN MaxLine ELSE Len(s)
<1>1. Len(s) \in Nat /\ MaxLine \in Nat
  BY LenProperties, ShellAssumption
<1>2. n \in 0 .. MaxLine /\ n <= Len(s)
  BY <1>1
<1> HIDE DEF n
<1>3. \A i \in 1 .. n : s[i] \in Char
  BY <1>1, <1>2, ElementOfSeq
<1>4. SubSeq(s, 1, n) \in Seq(Char) /\ Len(SubSeq(s, 1, n)) = IF 1 <= n THEN n - 1 + 1 ELSE 0
  BY <1>2, <1>3, SubSeqProperties
<1>5. Len(SubSeq(s, 1, n)) <= MaxLine
  BY <1>1, <1>2, <1>4
<1>6. SubSeq(s, 1, n) \in Line
  BY <1>4, <1>5, SeqIsLine
<1> QED BY <1>6 DEF Cut, n

LEMMA CompletionType ==
  ASSUME NEW word, Completions(word) # {}
  PROVE  Completion(word) \in Seq(Char)
<1>1. Completions(word) \subseteq Nat
  BY DEF Completions
<1>2. PICK i \in Completions(word) :
        \A j \in Completions(word) : ~(<<j, i>> \in OpToRel(<, Nat))
  BY <1>1, NatLessThanWellFounded, WFMin
<1>3. \A j \in Completions(word) : i <= j
  <2> SUFFICES ASSUME NEW j \in Completions(word), j < i PROVE FALSE
    BY <1>1
  <2>1. <<j, i>> \in Nat \X Nat
    BY <1>1
  <2>2. <<j, i>> \in OpToRel(<, Nat)
    BY <2>1 DEF OpToRel
  <2> QED BY <1>2, <2>2
<1> DEFINE first == CHOOSE k \in Completions(word) : \A j \in Completions(word) : k <= j
<1>4. first \in Completions(word)
  BY <1>3
<1>5. Commands \in Seq(Seq(Char)) /\ first \in 1 .. Len(Commands)
  BY <1>4, ShellAssumption DEF Completions, Char
<1> HIDE DEF first
<1>6. Commands[first] \in Seq(Char)
  BY <1>5, ElementOfSeq
<1> QED BY <1>6 DEF Completion, first

LEMMA EmptyLine == <<>> \in Line
<1>1. <<>> \in Seq(Char) /\ Len(<<>>) = 0
  BY EmptySeq
<1>2. Len(<<>>) <= MaxLine
  BY <1>1, ShellAssumption
<1> QED BY <1>1, <1>2, SeqIsLine

-----------------------------------------------------------------------------
(* What each key leaves on the line.                                       *)
Others == UNCHANGED <<command_history, history_count>>

LEMMA EditType ==
  ASSUME TypeOK, Backspace \/ (\E ch \in Char : Type(ch)) \/ Tab
  PROVE  shell_buffer' \in Line /\ history_current' = -1 /\ Others
<1>0. /\ shell_buffer \in Line /\ shell_buffer \in Seq(Char) /\ Len(shell_buffer) <= MaxLine
      /\ Len(shell_buffer) \in Nat /\ MaxLine \in Nat
  BY LineIsSeq, LenProperties, ShellAssumption DEF TypeOK
<1>1. history_current' = -1 /\ Others
  BY DEF Backspace, Type, Tab, ResetPosition, Others
<1>2. ASSUME Backspace PROVE shell_buffer' \in Line
  <2>1. shell_buffer # <<>> => Front(shell_buffer) \in Line
    <3> SUFFICES ASSUME shell_buffer # <<>> PROVE Front(shell_buffer) \in Line
      OBVIOUS
    <3>1. Len(shell_buffer) >= 1
      BY <1>0, EmptySeq
    <3>2. \A i \in 1 .. Len(shell_buffer) - 1 : shell_buffer[i] \in Char
      BY <1>0, ElementOfSeq
    <3>3. /\ Front(shell_buffer) \in Seq(Char)
          /\ Len(Front(shell_buffer)) = IF 1 <= Len(shell_buffer) - 1 THEN Len(shell_buffer) - 1 - 1 + 1 ELSE 0
      BY <1>0, <3>2, SubSeqProperties DEF Front
    <3>4. Len(Front(shell_buffer)) <= MaxLine
      BY <1>0, <3>1, <3>3
    <3> QED BY <3>3, <3>4, SeqIsLine
  <2> QED BY <1>2, <2>1, EmptyLine DEF Backspace
<1>3. ASSUME NEW ch \in Char, Type(ch) PROVE shell_buffer' \in Line
  <2>1. Append(shell_buffer, ch) \in Seq(Char) /\ Len(Append(shell_buffer, ch)) = Len(shell_buffer) + 1
    BY <1>0, AppendProperties
  <2>2. HasRoom => Len(Append(shell_buffer, ch)) <= MaxLine
    BY <1>0, <2>1 DEF HasRoom
  <2>3. HasRoom => Append(shell_buffer, ch) \in Line
    BY <2>1, <2>2, SeqIsLine
  <2> QED BY <1>0, <1>3, <2>3 DEF Type
<1>4. ASSUME Tab PROVE shell_buffer' \in Line
  <2>1. Completions(shell_buffer) # {} => Cut(Completion(shell_buffer), MaxLine) \in Line
    BY CompletionType, CutType
  <2> QED BY <1>0, <1>4, <2>1 DEF Tab
<1> QED BY <1>1, <1>2, <1>3, <1>4

LEMMA AddType ==
  ASSUME TypeOK, AddToHistory
  PROVE  command_history' \in [Slot -> Line] /\ history_count' \in Nat
BY SlotType DEF TypeOK, AddToHistory, RingIndex

(* Browsing goes to a position that is still in the ring.                  *)
LEMMA BackTarget ==
  ASSUME BrowsedIsOnTheLine, CtrlP
  PROVE  \E i \in Oldest .. history_count - 1 :
           /\ Show(i)
           /\ i = (IF history_current = -1 THEN history_count ELSE history_current) - 1
<1>0. TypeOK
  BY DEF BrowsedIsOnTheLine
<1>1. Oldest \in Nat /\ history_count \in Nat /\ (history_count > 0 => Oldest < history_count)
  BY <1>0, OldestFacts DEF TypeOK
<1>2. CASE history_current = -1 /\ Show(history_count - 1)
  <2>1. history_count - 1 \in Oldest .. history_count - 1
    BY <1>1 DEF CtrlP
  <2> QED BY <1>2, <2>1
<1>3. CASE history_current # -1 /\ history_current > Oldest /\ Show(history_current - 1)
  <2>1. history_current - 1 \in Oldest .. history_count - 1
    BY <1>0, <1>1, <1>3 DEF TypeOK
  <2> QED BY <1>3, <2>1
<1>4. history_current > Oldest => history_current # -1
  BY <1>1
<1> QED BY <1>2, <1>3, <1>4 DEF CtrlP

LEMMA ForwardTarget ==
  ASSUME BrowsedIsOnTheLine, CtrlN
  PROVE  \/ /\ history_current + 1 \in Oldest .. history_count - 1
            /\ history_current \in Oldest .. history_count - 1
            /\ Show(history_current + 1)
         \/ /\ history_current = history_count - 1 /\ history_current \in Nat
            /\ history_current' = -1 /\ shell_buffer' = <<>> /\ Others
<1>0. TypeOK
  BY DEF BrowsedIsOnTheLine
<1>1. /\ Oldest \in Nat /\ history_count \in Nat
      /\ history_current \in Oldest .. history_count - 1
  BY <1>0, OldestFacts DEF TypeOK, BrowsedIsOnTheLine, CtrlN
<1> QED BY <1>1 DEF CtrlN, Others

(* A step keeps the types, and what is browsed is on the line.             *)
LEMMA ShowKeeps ==
  ASSUME BrowsedIsOnTheLine, NEW i \in Oldest .. history_count - 1, Show(i)
  PROVE  BrowsedIsOnTheLine'
<1>0. TypeOK
  BY DEF BrowsedIsOnTheLine
<1>1. Oldest \in Nat /\ history_count \in Nat /\ i \in 0 .. history_count - 1
  BY <1>0, OldestFacts DEF TypeOK
<1>2. /\ history_current' = i /\ shell_buffer' = command_history[i % HistorySize]
      /\ command_history' = command_history /\ history_count' = history_count
  BY DEF Show
<1>3. TypeOK'
  BY <1>0, <1>1, <1>2, SlotType DEF TypeOK
<1>4. Oldest' = Oldest
  BY <1>2 DEF Oldest
<1> QED BY <1>1, <1>2, <1>3, <1>4 DEF BrowsedIsOnTheLine

LEMMA StepBrowsed == BrowsedIsOnTheLine /\ [Next]_vars => BrowsedIsOnTheLine'
<1> SUFFICES ASSUME BrowsedIsOnTheLine, [Next]_vars PROVE BrowsedIsOnTheLine'
  OBVIOUS
<1>0. TypeOK
  BY DEF BrowsedIsOnTheLine
<1>1. CASE Enter
  <2>1. command_history' \in [Slot -> Line] /\ history_count' \in Nat
    BY <1>0, <1>1, AddType DEF Enter, TypeOK
  <2> QED BY <1>1, <2>1, EmptyLine DEF Enter, BrowsedIsOnTheLine, TypeOK
<1>2. CASE Backspace \/ (\E ch \in Char : Type(ch)) \/ Tab
  <2>1. shell_buffer' \in Line /\ history_current' = -1 /\ Others
    BY <1>0, <1>2, EditType
  <2> QED BY <1>0, <2>1 DEF Others, BrowsedIsOnTheLine, TypeOK
<1>3. CASE CtrlP
  BY <1>3, BackTarget, ShowKeeps
<1>4. CASE CtrlN
  <2>1. CASE /\ history_current + 1 \in Oldest .. history_count - 1
             /\ Show(history_current + 1)
    BY <2>1, ShowKeeps
  <2>2. CASE history_current' = -1 /\ shell_buffer' = <<>> /\ Others
    BY <1>0, <2>2, EmptyLine DEF Others, BrowsedIsOnTheLine, TypeOK
  <2> QED BY <1>4, <2>1, <2>2, ForwardTarget
<1>5. CASE UNCHANGED vars
  BY <1>5 DEF vars, BrowsedIsOnTheLine, TypeOK, Oldest
<1> QED BY <1>1, <1>2, <1>3, <1>4, <1>5 DEF Next

LEMMA InitBrowsed == Init => BrowsedIsOnTheLine
BY EmptyLine DEF Init, BrowsedIsOnTheLine, TypeOK

(* In every order of keys, also after the ring has wrapped, the position   *)
(* of get_history_command is that of the command on the line.              *)
THEOREM BrowsedStaysOnTheLine == Spec => []BrowsedIsOnTheLine
BY InitBrowsed, StepBrowsed, PTL DEF Spec

-----------------------------------------------------------------------------
(* The list that the ring stands for, and the distance of the position     *)
(* from its end.                                                           *)
distance == IF history_current = -1 THEN 0 ELSE history_count - history_current

KeptIs ==
  /\ Kept \in Seq(Line)
  /\ Len(Kept) = history_count - Oldest
  /\ \A k \in 1 .. history_count - Oldest :
       Kept[k] = command_history[(Oldest + k - 1) % HistorySize]

LEMMA KeptFacts == TypeOK => KeptIs
<1> SUFFICES ASSUME TypeOK PROVE KeptIs
  OBVIOUS
<1> DEFINE n == history_count - Oldest
<1>1. n \in Nat /\ Oldest \in Nat
  BY OldestFacts DEF TypeOK
<1>2. \A k \in 1 .. n : command_history[(Oldest + k - 1) % HistorySize] \in Line
  <2> SUFFICES ASSUME NEW k \in 1 .. n
               PROVE  command_history[(Oldest + k - 1) % HistorySize] \in Line
    OBVIOUS
  <2>1. Oldest + k - 1 \in Nat
    BY <1>1
  <2> QED BY <2>1, SlotType DEF TypeOK
<1> HIDE DEF n
<1>3. Kept = [k \in 1 .. n |-> command_history[(Oldest + k - 1) % HistorySize]]
  BY DEF Kept, n
<1>4. Kept \in [1 .. n -> Line]
  BY <1>2, <1>3
<1>5. Kept \in Seq(Line)
  BY <1>1, <1>4, SeqDef
<1>6. Len(Kept) = n
  BY <1>1, <1>4, <1>5
<1> QED BY <1>3, <1>5, <1>6 DEF n, KeptIs

LEMMA KeptPrimed == TypeOK' => KeptIs'
BY KeptFacts, PTL

LEMMA NewestOfKept ==
  ASSUME TypeOK, history_count > 0
  PROVE  Kept # <<>> /\ Kept[Len(Kept)] = command_history[(history_count - 1) % HistorySize]
<1>1. /\ Oldest \in Nat /\ history_count \in Nat /\ Oldest < history_count
  BY OldestFacts DEF TypeOK
<1>2. history_count - Oldest \in 1 .. history_count - Oldest
  BY <1>1
<1>3. Oldest + (history_count - Oldest) - 1 = history_count - 1
  BY <1>1
<1>4. Kept[history_count - Oldest] = command_history[(history_count - 1) % HistorySize]
  BY <1>2, <1>3, KeptFacts DEF KeptIs
<1> QED BY <1>1, <1>4, KeptFacts, EmptySeq DEF KeptIs

(* add_to_history: what is written over is what falls out of the list.     *)
LEMMA AddIsAppend ==
  ASSUME TypeOK, TypeOK', AddToHistory, ~RepeatsLast
  PROVE  Kept' = History!Newest(Append(Kept, shell_buffer), HistorySize)
<1> DEFINE longer == Append(Kept, shell_buffer)
           gone == Oldest' - Oldest
<1>1. /\ HistorySize \in Nat \ {0} /\ history_count \in Nat /\ Oldest \in Nat /\ Oldest <= history_count
      /\ history_count - Oldest <= HistorySize
      /\ history_count < HistorySize => Oldest = 0
      /\ history_count >= HistorySize => Oldest = history_count - HistorySize
  BY ShellAssumption, OldestFacts DEF TypeOK
<1>2. /\ command_history' = [command_history EXCEPT ![history_count % HistorySize] = shell_buffer]
      /\ history_count' = history_count + 1
  BY DEF AddToHistory, RingIndex
<1>3. /\ Oldest' = (IF history_count < HistorySize THEN 0 ELSE history_count + 1 - HistorySize)
  BY <1>1, <1>2 DEF Oldest
<1>4. /\ gone \in {0, 1} /\ Oldest' = Oldest + gone
      /\ gone = (IF history_count - Oldest + 1 > HistorySize THEN 1 ELSE 0)
  BY <1>1, <1>3
<1>5. /\ longer \in Seq(Line) /\ Len(longer) = history_count - Oldest + 1
      /\ \A k \in 1 .. history_count - Oldest : longer[k] = Kept[k]
      /\ longer[history_count - Oldest + 1] = shell_buffer
  BY KeptFacts, AppendProperties DEF TypeOK, KeptIs
<1>6. /\ Kept' \in Seq(Line) /\ Len(Kept') = history_count + 1 - Oldest'
      /\ \A k \in 1 .. history_count + 1 - Oldest' :
           Kept'[k] = command_history'[(Oldest' + k - 1) % HistorySize]
  <2>1. KeptIs'
    BY KeptPrimed
  <2>2. (history_count - Oldest)' = history_count + 1 - Oldest'
    BY <1>1, <1>2, <1>3
  <2>3. Kept' \in Seq(Line)
    BY <2>1 DEF KeptIs, Line, Char
  <2>4. Len(Kept') = history_count + 1 - Oldest'
    BY <2>1, <2>2 DEF KeptIs
  <2> QED BY <2>1, <2>2, <2>3, <2>4 DEF KeptIs
<1> HIDE DEF longer, gone
<1>7. \A k \in 1 .. history_count + 1 - Oldest' : Kept'[k] = longer[k + gone]
  <2> SUFFICES ASSUME NEW k \in 1 .. history_count + 1 - Oldest'
               PROVE  Kept'[k] = longer[k + gone]
    OBVIOUS
  <2> DEFINE p == Oldest + k + gone - 1
  <2>1. /\ p \in Nat /\ Oldest' + k - 1 = p /\ k + gone = p - Oldest + 1
        /\ p <= history_count /\ history_count < p + HistorySize /\ Oldest <= p
    BY <1>1, <1>4
  <2> HIDE DEF p
  <2>2. Kept'[k] = command_history'[p % HistorySize]
    BY <1>6, <2>1
  <2>3. CASE p = history_count
    <3>1. command_history'[p % HistorySize] = shell_buffer
      BY <1>1, <1>2, <2>3, SlotType DEF TypeOK
    <3> QED BY <1>5, <2>1, <2>2, <2>3, <3>1
  <2>4. CASE p < history_count
    <3>1. p % HistorySize # history_count % HistorySize
      BY <1>1, <2>1, <2>4, SlotsApart
    <3>2. command_history'[p % HistorySize] = command_history[p % HistorySize]
      BY <1>2, <2>1, <3>1, SlotType DEF TypeOK
    <3>3. p - Oldest + 1 \in 1 .. history_count - Oldest /\ Oldest + (p - Oldest + 1) - 1 = p
      BY <1>1, <2>1, <2>4
    <3>4. longer[p - Oldest + 1] = command_history[p % HistorySize]
      BY <1>5, <3>3, KeptFacts DEF KeptIs
    <3> QED BY <2>1, <2>2, <3>2, <3>4
  <2> QED BY <1>1, <2>1, <2>3, <2>4
<1>8. /\ History!Newest(longer, HistorySize) = SubSeq(longer, 1 + gone, history_count - Oldest + 1)
  <2>1. (IF Len(longer) > HistorySize THEN Len(longer) - HistorySize + 1 ELSE 1) = 1 + gone
    BY <1>1, <1>4, <1>5
  <2> QED BY <1>5, <2>1 DEF History!Newest
<1> DEFINE newest == SubSeq(longer, 1 + gone, history_count - Oldest + 1)
<1>9. /\ newest \in Seq(Line) /\ Len(newest) = history_count + 1 - Oldest'
      /\ \A k \in 1 .. history_count + 1 - Oldest' : newest[k] = longer[k + gone]
  <2> DEFINE m == 1 + gone
             n == history_count - Oldest + 1
             size == history_count + 1 - Oldest'
  <2>1. /\ m \in Int /\ n \in Int /\ 1 <= m /\ m <= n /\ n - m + 1 = size
        /\ size \in Int
    BY <1>1, <1>4
  <2>2. \A k \in m .. n : longer[k] \in Line
    <3>0. Len(longer) = n
      BY <1>5
    <3> HIDE DEF m, n
    <3>1. \A k \in m .. n : k \in 1 .. Len(longer)
      BY <2>1, <3>0
    <3> QED BY <1>5, <3>1, ElementOfSeq
  <2>3. newest = SubSeq(longer, m, n) /\ \A k \in Nat : m + k - 1 = k + gone
    BY <1>4
  <2> HIDE DEF m, n, size, newest
  <2>4. /\ newest \in Seq(Line)
        /\ Len(newest) = n - m + 1
        /\ \A k \in 1 .. n - m + 1 : newest[k] = longer[m + k - 1]
    <3>1. /\ SubSeq(longer, m, n) \in Seq(Line)
          /\ Len(SubSeq(longer, m, n)) = n - m + 1
          /\ \A k \in 1 .. n - m + 1 : SubSeq(longer, m, n)[k] = longer[m + k - 1]
      BY <2>1, <2>2, SubSeqProperties
    <3> QED BY <2>3, <3>1
  <2>5. \A k \in 1 .. size : k \in Nat /\ newest[k] = longer[k + gone]
    BY SMTT(30), <2>1, <2>3, <2>4
  <2> QED BY <2>1, <2>4, <2>5 DEF size
<1> HIDE DEF newest
<1>10. Kept' = newest
  <2> DEFINE new == Kept'
  <2>1. new \in Seq(Line) /\ Len(new) = Len(newest) /\ \A k \in 1 .. Len(new) : new[k] = newest[k]
    BY <1>6, <1>7, <1>9
  <2> HIDE DEF new
  <2>2. new = newest
    BY <1>9, <2>1, SeqEqual
  <2> QED BY <2>2 DEF new
<1> QED BY <1>8, <1>10 DEF longer, newest

LEMMA EnterIsEnter ==
  ASSUME TypeOK, TypeOK', Enter
  PROVE  History!Enter
<1>1. shell_buffer' = <<>> /\ distance' = 0
  BY DEF Enter, distance
<1>2. RepeatsLast <=> Kept # <<>> /\ Kept[Len(Kept)] = shell_buffer
  <2>1. CASE history_count > 0
    BY <2>1, NewestOfKept DEF RepeatsLast
  <2>2. CASE history_count = 0
    <3>1. history_count - Oldest = 0
      BY <2>2, OldestFacts
    <3>2. Kept = <<>>
      BY <3>1, KeptFacts, EmptySeq DEF KeptIs
    <3> QED BY <2>2, <3>2 DEF RepeatsLast
  <2> QED BY <2>1, <2>2 DEF TypeOK
<1>3. CASE shell_buffer = <<>> \/ RepeatsLast
  <2>1. UNCHANGED <<command_history, history_count>>
    BY <1>3 DEF Enter, AddToHistory
  <2>2. Kept' = Kept
    BY <2>1 DEF Kept, Oldest
  <2> QED BY <1>1, <1>2, <1>3, <2>2 DEF History!Enter, History!Nothing, distance
<1>4. CASE shell_buffer # <<>> /\ ~RepeatsLast
  <2>1. Kept' = History!Newest(Append(Kept, shell_buffer), HistorySize)
    BY <1>4, AddIsAppend DEF Enter
  <2> QED BY <1>1, <1>2, <1>4, <2>1 DEF History!Enter, History!Nothing, distance
<1> QED BY <1>3, <1>4

(* Walking to a command is showing that of the list.                       *)
LEMMA ShowInList ==
  ASSUME TypeOK, NEW i \in Oldest .. history_count - 1, Show(i)
  PROVE  /\ Kept' = Kept
         /\ distance' = history_count - i
         /\ shell_buffer' = Kept[Len(Kept) - (history_count - i) + 1]
<1>1. Oldest \in Nat /\ history_count \in Nat /\ i \in Nat
  BY OldestFacts DEF TypeOK
<1>2. Kept' = Kept
  BY DEF Show, Kept, Oldest
<1>3. distance' = history_count - i
  BY <1>1 DEF Show, distance
<1>4. Len(Kept) = history_count - Oldest
  BY KeptFacts DEF KeptIs
<1>5. /\ Len(Kept) - (history_count - i) + 1 = i - Oldest + 1
      /\ i - Oldest + 1 \in 1 .. history_count - Oldest
      /\ Oldest + (i - Oldest + 1) - 1 = i
  BY <1>1, <1>4
<1>6. Kept[i - Oldest + 1] = command_history[i % HistorySize]
  BY <1>5, KeptFacts DEF KeptIs
<1> QED BY <1>2, <1>3, <1>5, <1>6 DEF Show

LEMMA CtrlPIsBack ==
  ASSUME BrowsedIsOnTheLine, CtrlP
  PROVE  History!Back
<1>1. TypeOK
  BY DEF BrowsedIsOnTheLine
<1>2. PICK i \in Oldest .. history_count - 1 :
        /\ Show(i)
        /\ i = (IF history_current = -1 THEN history_count ELSE history_current) - 1
  BY BackTarget
<1>3. Oldest \in Nat /\ history_count \in Nat /\ Len(Kept) = history_count - Oldest
  BY <1>1, OldestFacts, KeptFacts DEF TypeOK, KeptIs
<1>4. distance = history_count - i - 1
  BY <1>1, <1>2, <1>3 DEF distance, TypeOK
<1>5. /\ distance < Len(Kept) /\ history_count - i = distance + 1
      /\ Len(Kept) - (history_count - i) + 1 = Len(Kept) - distance
  BY SMTT(30), <1>2, <1>3, <1>4
<1>6. /\ Kept' = Kept /\ distance' = history_count - i
      /\ shell_buffer' = Kept[Len(Kept) - (history_count - i) + 1]
  BY <1>1, <1>2, ShowInList
<1> QED BY <1>5, <1>6 DEF History!Back, distance

LEMMA CtrlNIsForward ==
  ASSUME BrowsedIsOnTheLine, CtrlN
  PROVE  History!Forward
<1>1. TypeOK
  BY DEF BrowsedIsOnTheLine
<1>2. Oldest \in Nat /\ history_count \in Nat /\ Len(Kept) = history_count - Oldest
  BY <1>1, OldestFacts, KeptFacts DEF TypeOK, KeptIs
<1>3. CASE /\ history_current + 1 \in Oldest .. history_count - 1
           /\ history_current \in Oldest .. history_count - 1
           /\ Show(history_current + 1)
  <2> DEFINE i == history_current + 1
  <2>1. /\ Kept' = Kept /\ distance' = history_count - i
        /\ shell_buffer' = Kept[Len(Kept) - (history_count - i) + 1]
    BY <1>1, <1>3, ShowInList
  <2>2. /\ distance = history_count - history_current /\ distance > 1
        /\ history_count - i = distance - 1
        /\ Len(Kept) - (history_count - i) + 1 = Len(Kept) - distance + 2
    BY <1>2, <1>3 DEF distance
  <2> HIDE DEF i
  <2>3. shell_buffer' = (IF distance = 1 THEN History!Nothing ELSE Kept[Len(Kept) - distance + 2])
    BY <2>1, <2>2
  <2>4. distance > 0 /\ distance' = distance - 1 /\ Kept' = Kept
    BY <2>1, <2>2
  <2> QED BY <2>3, <2>4 DEF History!Forward, distance
<1>4. CASE /\ history_current = history_count - 1 /\ history_current \in Nat
           /\ history_current' = -1 /\ shell_buffer' = <<>> /\ Others
  <2>1. distance = 1 /\ distance' = 0
    BY <1>2, <1>4 DEF distance
  <2>2. Kept' = Kept
    BY <1>4 DEF Others, Kept, Oldest
  <2> QED BY <1>4, <2>1, <2>2 DEF History!Forward, History!Nothing, distance
<1> QED BY <1>3, <1>4, ForwardTarget

(* The ring and its position behave as the list of the last commands and   *)
(* a distance from its end, for a ring and lines of any size.              *)
THEOREM RingImplementsHistory == Spec => ImplementsCommandHistory
<1>1. Init => History!Init
  <2> SUFFICES ASSUME Init PROVE History!Init
    OBVIOUS
  <2>1. TypeOK
    BY InitBrowsed DEF BrowsedIsOnTheLine
  <2>2. history_count = 0 /\ Oldest \in Nat /\ Oldest <= history_count
    BY <2>1, OldestFacts DEF Init
  <2>3. Kept = <<>>
    BY <2>1, <2>2, KeptFacts, EmptySeq DEF KeptIs
  <2> QED BY <2>3 DEF Init, History!Init, History!Nothing
<1>2. BrowsedIsOnTheLine /\ BrowsedIsOnTheLine' /\ [Next]_vars
        => [History!Next]_<<Kept, distance, shell_buffer>>
  <2> SUFFICES ASSUME BrowsedIsOnTheLine, BrowsedIsOnTheLine', [Next]_vars
               PROVE  History!Next \/ UNCHANGED <<Kept, distance, shell_buffer>>
    OBVIOUS
  <2>1. TypeOK /\ TypeOK'
    BY DEF BrowsedIsOnTheLine
  <2>2. CASE Enter
    BY <2>1, <2>2, EnterIsEnter DEF History!Next
  <2>3. CASE Backspace \/ (\E ch \in Char : Type(ch)) \/ Tab
    <3>1. shell_buffer' \in Line /\ history_current' = -1 /\ Others
      BY <2>1, <2>3, EditType
    <3>2. Kept' = Kept
      BY <3>1 DEF Others, Kept, Oldest
    <3> QED BY <3>1, <3>2 DEF History!Next, History!Edit
  <2>4. CASE CtrlP
    BY <2>4, CtrlPIsBack DEF History!Next
  <2>5. CASE CtrlN
    BY <2>5, CtrlNIsForward DEF History!Next
  <2>6. CASE UNCHANGED vars
    BY <2>6 DEF vars, Kept, Oldest, distance
  <2> QED BY <2>2, <2>3, <2>4, <2>5, <2>6 DEF Next
<1> QED BY <1>1, <1>2, BrowsedStaysOnTheLine, PTL
        DEF Spec, ImplementsCommandHistory, History!Spec, History!vars, distance

-----------------------------------------------------------------------------
(* The split of a line into words: what parse_command_line knows after i   *)
(* characters is the words before i, and how much it has of the last one.  *)

LEMMA LeastNumber ==
  ASSUME NEW S, S \subseteq Nat, S # {}
  PROVE  \E i \in S : \A j \in S : i <= j
<1>1. PICK i \in S : \A j \in S : ~(<<j, i>> \in OpToRel(<, Nat))
  BY NatLessThanWellFounded, WFMin
<1>2. \A j \in S : i <= j
  <2> SUFFICES ASSUME NEW j \in S, j < i PROVE FALSE
    OBVIOUS
  <2>1. <<j, i>> \in Nat \X Nat
    OBVIOUS
  <2>2. <<j, i>> \in OpToRel(<, Nat)
    BY <2>1 DEF OpToRel
  <2> QED BY <1>1, <2>2
<1> QED BY <1>2

(* A property of 0 that goes from each number to the next holds up to n.   *)
LEMMA UpTo ==
  ASSUME NEW n \in Nat, NEW S, 0 \in S, \A k \in 0 .. n - 1 : k \in S => k + 1 \in S
  PROVE  \A k \in 0 .. n : k \in S
<1> DEFINE Out == { k \in 0 .. n : k \notin S }
<1> SUFFICES ASSUME Out # {} PROVE FALSE
  OBVIOUS
<1>1. Out \subseteq Nat
  OBVIOUS
<1>2. PICK k \in Out : \A j \in Out : k <= j
  BY <1>1, LeastNumber
<1>3. k - 1 \in 0 .. n - 1 /\ k - 1 \in 0 .. n /\ k - 1 \notin Out /\ (k - 1) + 1 = k
  BY <1>2
<1> QED BY <1>2, <1>3

Nothing == [args |-> <<>>, arg |-> <<>>]

(* The loop of parse_command_line is what it says.                         *)
LEMMA ParsingIs ==
  ASSUME NEW line \in Seq(Char)
  PROVE  /\ Parsing(line)[0] = Nothing
         /\ \A n \in 0 .. Len(line) - 1 :
              Parsing(line)[n + 1] = ParseChar(Parsing(line)[n], line[n + 1])
<1> DEFINE len == Len(line)
           Loop(s, n) == /\ DOMAIN s = 0 .. n /\ s[0] = Nothing
                         /\ \A k \in 1 .. n : s[k] = ParseChar(s[k - 1], line[k])
           S == { n \in 0 .. len : \E s : Loop(s, n) /\ s = [k \in DOMAIN s |-> s[k]] }
<1>0. len \in Nat
  BY LenProperties
<1> HIDE DEF len
<1>1. 0 \in S
  <2> DEFINE f == [k \in 0 .. 0 |-> Nothing]
  <2>1. Loop(f, 0) /\ f = [k \in DOMAIN f |-> f[k]]
    OBVIOUS
  <2> HIDE DEF f, Loop
  <2> QED BY <1>0, <2>1
<1>2. ASSUME NEW n \in 0 .. len - 1, n \in S PROVE n + 1 \in S
  <2>1. PICK s : Loop(s, n)
    BY <1>2
  <2> DEFINE t == [k \in 0 .. n + 1 |-> IF k = n + 1 THEN ParseChar(s[n], line[n + 1]) ELSE s[k]]
  <2>2. t[0] = Nothing
    BY <1>0, <2>1
  <2>3. ASSUME NEW k \in 1 .. n + 1 PROVE t[k] = ParseChar(t[k - 1], line[k])
    <3>1. k - 1 \in 0 .. n + 1 /\ k - 1 # n + 1 /\ k \in 0 .. n + 1
      BY <1>0
    <3>2. CASE k = n + 1
      BY <3>1, <3>2
    <3>3. CASE k # n + 1
      <4>1. k \in 1 .. n
        BY <1>0, <3>3
      <4> QED BY <2>1, <3>1, <3>3, <4>1
    <3> QED BY <3>2, <3>3
  <2>4. Loop(t, n + 1) /\ t = [k \in DOMAIN t |-> t[k]]
    BY <2>2, <2>3
  <2>5. n + 1 \in 0 .. len
    BY <1>0
  <2> HIDE DEF t, Loop
  <2> QED BY <2>4, <2>5
<1>3. len \in S
  <2> HIDE DEF S
  <2>1. \A n \in 0 .. len : n \in S
    BY <1>0, <1>1, <1>2, UpTo
  <2> QED BY <1>0, <2>1
<1>4. PICK w : Loop(w, len) /\ w = [k \in DOMAIN w |-> w[k]]
  BY <1>3
<1> DEFINE rule(g) == [n \in 0 .. len |-> IF n = 0 THEN Nothing ELSE ParseChar(g[n - 1], line[n])]
<1>5. w = rule(w)
  BY <1>0, <1>4
<1>6. Parsing(line) = CHOOSE g : g = rule(g)
  BY DEF Parsing, Nothing, len
<1> DEFINE v == Parsing(line)
<1>7. v = rule(v)
  <2> HIDE DEF rule
  <2> QED BY <1>5, <1>6
<1> HIDE DEF v
<1>8. v[0] = Nothing
  BY <1>0, <1>7
<1>9. ASSUME NEW n \in 0 .. len - 1 PROVE v[n + 1] = ParseChar(v[n], line[n + 1])
  <2>1. n + 1 \in 0 .. len /\ n + 1 # 0 /\ (n + 1) - 1 = n
    BY <1>0
  <2>2. v[n + 1] = rule(v)[n + 1]
    BY <1>7
  <2>3. rule(v)[n + 1] = ParseChar(v[n], line[n + 1])
    BY <2>1
  <2> HIDE DEF rule
  <2> QED BY <2>2, <2>3
<1> QED BY <1>8, <1>9 DEF v, len

-----------------------------------------------------------------------------
(* The starts of words, counted from the beginning of the line.            *)
Count(line, i) == Cardinality(StartsUpTo(line, i))

LEMMA CountFacts ==
  ASSUME NEW line \in Seq(Char)
  PROVE  /\ IsFiniteSet(Starts(line)) /\ Starts(line) \subseteq 1 .. Len(line)
         /\ \A i \in 0 .. Len(line) : IsFiniteSet(StartsUpTo(line, i)) /\ Count(line, i) \in Nat
         /\ Count(line, 0) = 0
         /\ Count(line, Len(line)) = Cardinality(Starts(line))
         /\ \A i, j \in 0 .. Len(line) : i <= j => Count(line, i) <= Count(line, j)
<1>1. Len(line) \in Nat
  BY LenProperties
<1>2. Starts(line) \subseteq 1 .. Len(line)
  BY DEF Starts
<1>3. IsFiniteSet(Starts(line))
  <2>1. IsFiniteSet(1 .. Len(line))
    BY <1>1, FS_Interval
  <2> QED BY <1>2, <2>1, FS_Subset
<1>4. ASSUME NEW i \in 0 .. Len(line) PROVE IsFiniteSet(StartsUpTo(line, i)) /\ Count(line, i) \in Nat
  <2>1. StartsUpTo(line, i) \in SUBSET Starts(line)
    BY DEF StartsUpTo
  <2>2. IsFiniteSet(StartsUpTo(line, i))
    BY <1>3, <2>1, FS_Subset
  <2> QED BY <2>2, FS_CardinalityType DEF Count
<1>5. Count(line, 0) = 0
  <2>1. StartsUpTo(line, 0) = {}
    BY <1>1, <1>2 DEF StartsUpTo
  <2> QED BY <2>1, FS_EmptySet DEF Count
<1>6. StartsUpTo(line, Len(line)) = Starts(line)
  BY <1>1, <1>2 DEF StartsUpTo
<1>7. ASSUME NEW i \in 0 .. Len(line), NEW j \in 0 .. Len(line), i <= j
      PROVE  Count(line, i) <= Count(line, j)
  <2>1. StartsUpTo(line, i) \in SUBSET StartsUpTo(line, j)
    BY <1>1, <1>2, <1>7 DEF StartsUpTo
  <2>2. IsFiniteSet(StartsUpTo(line, j))
    BY <1>4
  <2> QED BY <2>1, <2>2, FS_Subset DEF Count
<1> QED BY <1>2, <1>3, <1>4, <1>5, <1>6, <1>7 DEF Count

LEMMA CountNext ==
  ASSUME NEW line \in Seq(Char), NEW i \in 0 .. Len(line) - 1
  PROVE  Count(line, i + 1) = IF i + 1 \in Starts(line) THEN Count(line, i) + 1 ELSE Count(line, i)
<1>1. Len(line) \in Nat /\ i \in 0 .. Len(line)
  BY LenProperties
<1>2. Starts(line) \subseteq 1 .. Len(line) /\ IsFiniteSet(StartsUpTo(line, i))
  BY <1>1, CountFacts
<1>3. CASE i + 1 \in Starts(line)
  <2>1. StartsUpTo(line, i + 1) = StartsUpTo(line, i) \cup {i + 1}
    BY <1>1, <1>2, <1>3 DEF StartsUpTo
  <2>2. i + 1 \notin StartsUpTo(line, i)
    BY <1>1 DEF StartsUpTo
  <2> QED BY <1>2, <1>3, <2>1, <2>2, FS_AddElement DEF Count
<1>4. CASE i + 1 \notin Starts(line)
  <2>1. StartsUpTo(line, i + 1) = StartsUpTo(line, i)
    BY <1>1, <1>2, <1>4 DEF StartsUpTo
  <2> QED BY <1>4, <2>1 DEF Count
<1> QED BY <1>3, <1>4

(* No two words have the same number.                                      *)
LEMMA StartsApart ==
  ASSUME NEW line \in Seq(Char), NEW p \in Starts(line), NEW q \in Starts(line),
         Count(line, p) = Count(line, q)
  PROVE  p = q
<1>1. Len(line) \in Nat /\ Starts(line) \subseteq 1 .. Len(line)
  BY LenProperties, CountFacts
<1>2. ASSUME NEW a \in Starts(line), NEW b \in Starts(line), a < b PROVE Count(line, a) # Count(line, b)
  <2>1. a \in 0 .. Len(line) /\ b - 1 \in 0 .. Len(line) - 1 /\ b - 1 \in 0 .. Len(line)
        /\ a <= b - 1 /\ (b - 1) + 1 = b
    BY <1>1, <1>2
  <2>2. Count(line, b) = Count(line, b - 1) + 1
    BY <2>1, CountNext
  <2>3. Count(line, a) <= Count(line, b - 1) /\ Count(line, a) \in Nat /\ Count(line, b - 1) \in Nat
    BY <2>1, CountFacts
  <2> QED BY <2>2, <2>3
<1>3. p \in Int /\ q \in Int
  BY <1>1
<1> QED BY <1>2, <1>3

LEMMA NthStartIs ==
  ASSUME NEW line \in Seq(Char), NEW p \in Starts(line), NEW n, Count(line, p) = n
  PROVE  NthStart(line, n) = p
<1>1. NthStart(line, n) \in Starts(line) /\ Count(line, NthStart(line, n)) = n
  BY DEF NthStart, Count
<1> QED BY <1>1, StartsApart

LEMMA WordAtIs ==
  ASSUME NEW line \in Seq(Char), NEW p \in 1 .. Len(line), NEW i \in p .. Len(line),
         \A k \in p .. i : line[k] # Blank, i = Len(line) \/ line[i + 1] = Blank
  PROVE  WordAt(line, p) = SubSeq(line, p, i)
<1> DEFINE EndsAt(j) == (\A k \in p .. j : line[k] # Blank) /\ (j = Len(line) \/ line[j + 1] = Blank)
           e == CHOOSE j \in p .. Len(line) : EndsAt(j)
<1>1. Len(line) \in Nat
  BY LenProperties
<1>2. e \in p .. Len(line) /\ EndsAt(e)
  OBVIOUS
<1>3. WordAt(line, p) = SubSeq(line, p, e)
  BY DEF WordAt
<1> HIDE DEF e
<1>4. e = i
  <2>1. ~(e < i)
    <3> SUFFICES ASSUME e < i PROVE FALSE
      OBVIOUS
    <3>1. e + 1 \in p .. i /\ e # Len(line)
      BY <1>1, <1>2
    <3> QED BY <1>2, <3>1
  <2>2. ~(i < e)
    <3> SUFFICES ASSUME i < e PROVE FALSE
      OBVIOUS
    <3>1. i + 1 \in p .. e /\ i # Len(line)
      BY <1>1, <1>2
    <3> QED BY <1>2, <3>1
  <2> QED BY <1>1, <1>2, <2>1, <2>2
<1> QED BY <1>3, <1>4

-----------------------------------------------------------------------------
(* The letters of a word, of which an argument keeps the first ones.       *)
Letter(line, p, i) == Cut(SubSeq(line, p, i), MaxArgLen)
Shorter(n) == IF n > MaxArgLen THEN MaxArgLen ELSE n

LEMMA LettersAre ==
  ASSUME NEW line \in Seq(Char), NEW p \in 1 .. Len(line), NEW i \in p .. Len(line)
  PROVE  /\ Letter(line, p, i) \in Seq(Char)
         /\ Len(Letter(line, p, i)) = Shorter(i - p + 1)
         /\ \A k \in 1 .. Shorter(i - p + 1) : Letter(line, p, i)[k] = line[p + k - 1]
<1> DEFINE s == SubSeq(line, p, i)
           n == Shorter(i - p + 1)
<1>1. Len(line) \in Nat /\ MaxArgLen \in Nat \ {0}
  BY LenProperties, ShellAssumption
<1>2. \A k \in p .. i : line[k] \in Char
  BY <1>1, ElementOfSeq
<1>3. /\ s \in Seq(Char) /\ Len(s) = i - p + 1
      /\ \A k \in 1 .. i - p + 1 : s[k] = line[p + k - 1]
  <2>1. p \in Int /\ i \in Int /\ p <= i
    BY <1>1
  <2>2. /\ s \in Seq(Char) /\ Len(s) = (IF p <= i THEN i - p + 1 ELSE 0)
        /\ \A k \in 1 .. i - p + 1 : s[k] = line[p + k - 1]
    BY <1>2, <2>1, SubSeqProperties
  <2> QED BY <2>1, <2>2
<1> HIDE DEF s
<1>4. n \in 1 .. i - p + 1 /\ n = (IF Len(s) > MaxArgLen THEN MaxArgLen ELSE Len(s))
  BY <1>1, <1>3 DEF Shorter
<1>5. Letter(line, p, i) = SubSeq(s, 1, n)
  BY <1>4 DEF Letter, Cut, s
<1> HIDE DEF n
<1>6. \A k \in 1 .. n : s[k] \in Char
  BY <1>1, <1>3, <1>4, ElementOfSeq
<1>7. /\ SubSeq(s, 1, n) \in Seq(Char) /\ Len(SubSeq(s, 1, n)) = (IF 1 <= n THEN n - 1 + 1 ELSE 0)
      /\ \A k \in 1 .. n - 1 + 1 : SubSeq(s, 1, n)[k] = s[1 + k - 1]
  <2>1. 1 \in Int /\ n \in Int
    BY <1>4
  <2> QED BY <1>6, <2>1, SubSeqProperties
<1>8. n - 1 + 1 = n /\ 1 <= n
  BY <1>4
<1>9. \A k \in 1 .. n : SubSeq(s, 1, n)[k] = line[p + k - 1]
  <2> SUFFICES ASSUME NEW k \in 1 .. n PROVE SubSeq(s, 1, n)[k] = line[p + k - 1]
    OBVIOUS
  <2>1. k \in 1 .. n - 1 + 1 /\ 1 + k - 1 = k /\ k \in 1 .. i - p + 1
    BY <1>4
  <2> QED BY <1>3, <1>7, <2>1
<1> QED BY <1>5, <1>7, <1>8, <1>9 DEF n

(* A first letter; one more letter while there is room; and one too many.  *)
LEMMA FirstLetter ==
  ASSUME NEW line \in Seq(Char), NEW p \in 1 .. Len(line)
  PROVE  Append(<<>>, line[p]) = Letter(line, p, p)
<1>1. Len(line) \in Nat /\ MaxArgLen \in Nat \ {0} /\ p \in p .. Len(line)
  BY LenProperties, ShellAssumption
<1>2. line[p] \in Char
  BY ElementOfSeq
<1>3. <<>> \in Seq(Char) /\ Len(<<>>) = 0
  BY EmptySeq
<1>4. /\ Append(<<>>, line[p]) \in Seq(Char) /\ Len(Append(<<>>, line[p])) = 1
      /\ Append(<<>>, line[p])[1] = line[p]
  BY <1>2, <1>3, AppendProperties
<1>5. Shorter(p - p + 1) = 1
  BY <1>1 DEF Shorter
<1>6. /\ Letter(line, p, p) \in Seq(Char) /\ Len(Letter(line, p, p)) = 1
      /\ Letter(line, p, p)[1] = line[p]
  <2>1. /\ Letter(line, p, p) \in Seq(Char) /\ Len(Letter(line, p, p)) = Shorter(p - p + 1)
        /\ \A k \in 1 .. Shorter(p - p + 1) : Letter(line, p, p)[k] = line[p + k - 1]
    BY <1>1, LettersAre
  <2>2. Letter(line, p, p)[1] = line[p + 1 - 1]
    BY <1>5, <2>1
  <2>3. p + 1 - 1 = p
    OBVIOUS
  <2> QED BY <1>5, <2>1, <2>2, <2>3
<1> QED BY <1>4, <1>6, SeqEqual

LEMMA NextLetter ==
  ASSUME NEW line \in Seq(Char), NEW p \in 1 .. Len(line), NEW i \in p .. Len(line) - 1
  PROVE  IF Len(Letter(line, p, i)) < MaxArgLen
         THEN Append(Letter(line, p, i), line[i + 1]) = Letter(line, p, i + 1)
         ELSE Letter(line, p, i) = Letter(line, p, i + 1)
<1> DEFINE s == Letter(line, p, i)
           t == Letter(line, p, i + 1)
<1>1. Len(line) \in Nat /\ MaxArgLen \in Nat \ {0} /\ i \in p .. Len(line) /\ i + 1 \in p .. Len(line)
  BY LenProperties, ShellAssumption
<1>2. line[i + 1] \in Char
  BY <1>1, ElementOfSeq
<1>3. /\ s \in Seq(Char) /\ Len(s) = Shorter(i - p + 1)
      /\ \A k \in 1 .. Shorter(i - p + 1) : s[k] = line[p + k - 1]
  BY <1>1, LettersAre
<1>4. /\ t \in Seq(Char) /\ Len(t) = Shorter(i + 1 - p + 1)
      /\ \A k \in 1 .. Shorter(i + 1 - p + 1) : t[k] = line[p + k - 1]
  BY <1>1, LettersAre
<1> HIDE DEF s, t
<1>5. CASE Len(s) < MaxArgLen
  <2>1. Shorter(i - p + 1) = i - p + 1 /\ Shorter(i + 1 - p + 1) = i - p + 2
    BY <1>1, <1>3, <1>5 DEF Shorter
  <2>2. /\ Append(s, line[i + 1]) \in Seq(Char) /\ Len(Append(s, line[i + 1])) = Len(s) + 1
        /\ \A k \in 1 .. Len(s) : Append(s, line[i + 1])[k] = s[k]
        /\ Append(s, line[i + 1])[Len(s) + 1] = line[i + 1]
    BY <1>2, <1>3, AppendProperties
  <2>3. Len(s) = i - p + 1 /\ Len(t) = i - p + 2
    BY <1>3, <1>4, <2>1
  <2>4. ASSUME NEW k \in 1 .. i - p + 2 PROVE Append(s, line[i + 1])[k] = t[k]
    <3>1. t[k] = line[p + k - 1]
      BY <1>4, <2>1
    <3>2. CASE k \in 1 .. i - p + 1
      BY <1>3, <2>1, <2>2, <2>3, <3>1, <3>2
    <3>3. CASE k = i - p + 2
      <4>1. p + k - 1 = i + 1 /\ k = Len(s) + 1
        BY <1>1, <2>3, <3>3
      <4> QED BY <2>2, <3>1, <4>1
    <3>4. k \in 1 .. i - p + 1 \/ k = i - p + 2
      BY <1>1
    <3> QED BY <3>2, <3>3, <3>4
  <2>5. Len(Append(s, line[i + 1])) = Len(t) /\ Len(t) = i - p + 2
    BY <1>1, <2>2, <2>3
  <2>6. Append(s, line[i + 1]) = t
    BY <1>4, <2>2, <2>4, <2>5, SeqEqual
  <2> QED BY <1>5, <2>6 DEF s, t
<1>6. CASE ~(Len(s) < MaxArgLen)
  <2>1. Shorter(i - p + 1) = MaxArgLen /\ Shorter(i + 1 - p + 1) = MaxArgLen
    BY <1>1, <1>3, <1>6 DEF Shorter
  <2>2. \A k \in 1 .. MaxArgLen : s[k] = t[k]
    BY <1>3, <1>4, <2>1
  <2>3. Len(s) = MaxArgLen /\ Len(t) = MaxArgLen
    BY <1>3, <1>4, <2>1
  <2>4. s = t
    BY <1>3, <1>4, <2>2, <2>3, SeqEqual
  <2> QED BY <1>6, <2>4 DEF s, t
<1> QED BY <1>5, <1>6

-----------------------------------------------------------------------------
(* Argument n is a word that began before i.  What is being read is the    *)
(* next word up to i, or nothing after a blank.                            *)
IsWord(line, p, n) == p \in Starts(line) /\ Count(line, p) = n

Read(line, i, args) ==
  /\ args \in Seq(Seq(Char)) /\ Len(args) <= MaxArgs
  /\ \A n \in 1 .. Len(args) :
       \E p : /\ IsWord(line, p, n) /\ p <= i
              /\ args[n] = Cut(WordAt(line, p), MaxArgLen)

Reading(line, i, p, n, arg) ==
  /\ IsWord(line, p, n) /\ Count(line, i) = n /\ p <= i
  /\ \A k \in p .. i : line[k] # Blank
  /\ arg = Letter(line, p, i)

Between(line, i, n) == (i = 0 \/ line[i] = Blank) /\ Count(line, i) = n

Understood(line, i, s) ==
  /\ s = [args |-> s.args, arg |-> s.arg]
  /\ Read(line, i, s.args) /\ s.arg \in Seq(Char)
  /\ Len(s.args) < MaxArgs => IF s.arg = <<>> THEN Between(line, i, Len(s.args))
                              ELSE \E p : Reading(line, i, p, Len(s.args) + 1, s.arg)

LEMMA UnderstoodFirst ==
  ASSUME NEW line \in Seq(Char)
  PROVE  Understood(line, 0, Nothing)
<1>1. /\ <<>> \in Seq(Seq(Char)) /\ <<>> \in Seq(Char) /\ Len(<<>>) = 0
      /\ MaxArgs \in Nat \ {0}
  BY EmptySeq, ShellAssumption
<1>2. Read(line, 0, <<>>)
  BY <1>1 DEF Read
<1>3. Between(line, 0, Len(<<>>))
  BY <1>1, CountFacts DEF Between
<1> QED BY <1>1, <1>2, <1>3 DEF Understood, Nothing

LEMMA ReadLater ==
  ASSUME NEW line \in Seq(Char), NEW i \in Nat, NEW args, Read(line, i, args)
  PROVE  Read(line, i + 1, args)
<1>1. Starts(line) \subseteq Int
  BY LenProperties DEF Starts
<1>2. ASSUME NEW p, IsWord(line, p, Count(line, p)), p <= i PROVE p <= i + 1
  BY <1>1, <1>2 DEF IsWord
<1> QED BY <1>2 DEF Read, IsWord

(* A word has been read: it becomes an argument.                           *)
LEMMA ReadWord ==
  ASSUME NEW line \in Seq(Char), NEW i \in 0 .. Len(line), NEW args, Read(line, i, args),
         Len(args) < MaxArgs, NEW p, NEW arg, Reading(line, i, p, Len(args) + 1, arg),
         i = Len(line) \/ line[i + 1] = Blank
  PROVE  /\ Append(args, arg) \in Seq(Seq(Char))
         /\ Len(Append(args, arg)) = Len(args) + 1
         /\ Read(line, i, Append(args, arg))
<1>1. Len(line) \in Nat /\ Len(args) \in Nat /\ args \in Seq(Seq(Char)) /\ MaxArgs \in Nat
  BY LenProperties, ShellAssumption DEF Read
<1>2. p \in 1 .. Len(line) /\ i \in p .. Len(line) /\ IsWord(line, p, Len(args) + 1) /\ p <= i
  BY <1>1, CountFacts DEF Reading, IsWord
<1>3. WordAt(line, p) = SubSeq(line, p, i)
  BY <1>2, WordAtIs DEF Reading
<1>4. arg = Cut(WordAt(line, p), MaxArgLen)
  BY <1>3 DEF Reading, Letter
<1>5. arg \in Seq(Char)
  BY <1>2, LettersAre DEF Reading
<1> DEFINE more == Append(args, arg)
<1>6. /\ more \in Seq(Seq(Char)) /\ Len(more) = Len(args) + 1
      /\ \A n \in 1 .. Len(args) : more[n] = args[n]
      /\ more[Len(args) + 1] = arg
  BY <1>1, <1>5, AppendProperties
<1> HIDE DEF more
<1>7. ASSUME NEW n \in 1 .. Len(more)
      PROVE  \E q : /\ IsWord(line, q, n) /\ q <= i
                    /\ more[n] = Cut(WordAt(line, q), MaxArgLen)
  <2>1. CASE n = Len(args) + 1
    BY <1>2, <1>4, <1>6, <2>1
  <2>2. CASE n \in 1 .. Len(args)
    BY <1>6, <2>2 DEF Read
  <2>3. n = Len(args) + 1 \/ n \in 1 .. Len(args)
    BY <1>1, <1>6
  <2> QED BY <2>1, <2>2, <2>3
<1>8. Len(more) <= MaxArgs
  BY <1>1, <1>6
<1>9. Read(line, i, more)
  BY <1>6, <1>7, <1>8 DEF Read
<1> QED BY <1>6, <1>9 DEF more

LEMMA UnderstoodNext ==
  ASSUME NEW line \in Seq(Char), NEW i \in 0 .. Len(line) - 1, NEW s, Understood(line, i, s)
  PROVE  Understood(line, i + 1, ParseChar(s, line[i + 1]))
<1> DEFINE ch == line[i + 1]
           t == ParseChar(s, ch)
           args == s.args
           arg == s.arg
<1>1. /\ Len(line) \in Nat /\ i \in Nat /\ i \in 0 .. Len(line) /\ i + 1 \in 1 .. Len(line)
      /\ MaxArgs \in Nat \ {0} /\ MaxArgLen \in Nat \ {0}
  BY LenProperties, ShellAssumption
<1>2. ch \in Char
  BY <1>1, ElementOfSeq
<1>3. /\ s = [args |-> args, arg |-> arg] /\ Read(line, i, args) /\ arg \in Seq(Char)
      /\ Read(line, i + 1, args)
  BY <1>1, ReadLater DEF Understood
<1>4. /\ args \in Seq(Seq(Char)) /\ Len(args) \in Nat /\ Len(arg) \in Nat /\ Len(args) <= MaxArgs
  BY <1>3, LenProperties DEF Read
<1>5. Count(line, i) \in Nat
  BY <1>1, CountFacts
<1>6. i + 1 \in Starts(line) <=> ch # Blank /\ (i = 0 \/ line[i] = Blank)
  <2>1. i + 1 = 1 <=> i = 0
    BY <1>1
  <2>2. (i + 1) - 1 = i
    BY <1>1
  <2> QED BY <1>1, <2>1, <2>2 DEF Starts
<1>7. Count(line, i + 1) = IF i + 1 \in Starts(line) THEN Count(line, i) + 1 ELSE Count(line, i)
  BY CountNext
<1> HIDE DEF ch
<1>8. CASE Len(args) = MaxArgs
  <2>1. t = s
    BY <1>8 DEF ParseChar
  <2>2. ~(Len(args) < MaxArgs)
    BY <1>1, <1>8
  <2>3. Understood(line, i + 1, s)
    BY <1>3, <2>2 DEF Understood
  <2> QED BY <2>1, <2>3 DEF ch
<1>9. ASSUME Len(args) # MaxArgs, ch = Blank, arg = <<>>
      PROVE  Understood(line, i + 1, t)
  <2>1. t = s
    BY <1>9 DEF ParseChar
  <2>2. Len(args) < MaxArgs
    BY <1>1, <1>4, <1>9
  <2>3. Between(line, i, Len(args))
    BY <1>9, <2>2 DEF Understood
  <2>4. Between(line, i + 1, Len(args))
    BY <1>6, <1>7, <1>9, <2>3 DEF Between, ch
  <2>5. Understood(line, i + 1, s)
    BY <1>3, <1>9, <2>4 DEF Understood
  <2> QED BY <2>1, <2>5
<1>10. ASSUME Len(args) # MaxArgs, ch = Blank, arg # <<>>
       PROVE  Understood(line, i + 1, t)
  <2>1. t = [args |-> Append(args, arg), arg |-> <<>>]
    BY <1>10 DEF ParseChar
  <2>2. Len(args) < MaxArgs
    BY <1>1, <1>4, <1>10
  <2>3. PICK p : Reading(line, i, p, Len(args) + 1, arg)
    BY <1>10, <2>2 DEF Understood
  <2>4. Len(Append(args, arg)) = Len(args) + 1 /\ Read(line, i, Append(args, arg))
    BY <1>1, <1>3, <1>10, <2>2, <2>3, ReadWord DEF ch
  <2>5. Read(line, i + 1, Append(args, arg))
    BY <1>1, <2>4, ReadLater
  <2>6. Between(line, i + 1, Len(args) + 1)
    BY <1>6, <1>7, <1>10, <2>3 DEF Between, Reading, ch
  <2>7. <<>> \in Seq(Char)
    BY EmptySeq
  <2> HIDE DEF t, args, arg
  <2> QED BY <2>1, <2>4, <2>5, <2>6, <2>7 DEF Understood
<1>11. ASSUME Len(args) # MaxArgs, ch # Blank, arg = <<>>
       PROVE  Understood(line, i + 1, t)
  <2>1. Len(arg) < MaxArgLen
    BY <1>1, <1>11, EmptySeq
  <2>2. t = [args |-> args, arg |-> Append(arg, ch)]
    BY <1>3, <1>11, <2>1 DEF ParseChar
  <2>3. Len(args) < MaxArgs
    BY <1>1, <1>4, <1>11
  <2>4. Between(line, i, Len(args))
    BY <1>11, <2>3 DEF Understood
  <2>5. i + 1 \in Starts(line) /\ Count(line, i + 1) = Len(args) + 1
    BY <1>6, <1>7, <1>11, <2>4 DEF Between
  <2>6. Append(arg, ch) = Letter(line, i + 1, i + 1)
    BY <1>1, <1>11, FirstLetter DEF ch
  <2>7. \A k \in i + 1 .. i + 1 : line[k] # Blank
    BY <1>1, <1>11 DEF ch
  <2>8. i + 1 <= i + 1
    BY <1>1
  <2>9. Reading(line, i + 1, i + 1, Len(args) + 1, Append(arg, ch))
    BY <2>5, <2>6, <2>7, <2>8 DEF Reading, IsWord
  <2>10. Append(arg, ch) \in Seq(Char) /\ Append(arg, ch) # <<>>
    BY <1>2, <1>3, AppendProperties
  <2> HIDE DEF t, args, arg
  <2> QED BY <1>3, <2>2, <2>9, <2>10 DEF Understood
<1>12. ASSUME Len(args) # MaxArgs, ch # Blank, arg # <<>>
       PROVE  Understood(line, i + 1, t)
  <2>1. Len(args) < MaxArgs
    BY <1>1, <1>4, <1>12
  <2>2. PICK p : Reading(line, i, p, Len(args) + 1, arg)
    BY <1>12, <2>1 DEF Understood
  <2>3. p \in 1 .. Len(line) /\ p <= i /\ i \in p .. Len(line) - 1 /\ i \in p .. i
    BY <1>1, <2>2, CountFacts DEF Reading, IsWord
  <2>4. i + 1 \notin Starts(line) /\ Count(line, i + 1) = Len(args) + 1
    <3>1. line[i] # Blank /\ i # 0
      BY <1>1, <2>2, <2>3 DEF Reading
    <3> QED BY <1>6, <1>7, <2>2, <3>1 DEF Reading
  <2>5. arg = Letter(line, p, i)
    BY <2>2 DEF Reading
  <2>6. \A k \in p .. i + 1 : line[k] # Blank
    <3>1. \A k \in p .. i + 1 : k \in p .. i \/ k = i + 1
      BY <1>1, <2>3
    <3> QED BY <1>12, <2>2, <3>1 DEF Reading, ch
  <2>7. p <= i + 1
    BY <1>1, <2>3
  <2> DEFINE longer == IF Len(arg) < MaxArgLen THEN Append(arg, ch) ELSE arg
  <2>8. longer = Letter(line, p, i + 1)
    BY <2>3, <2>5, NextLetter DEF ch
  <2>9. longer \in Seq(Char) /\ longer # <<>>
    BY <1>2, <1>3, <1>12, AppendProperties
  <2>10. t = [args |-> args, arg |-> longer]
    BY <1>3, <1>12 DEF ParseChar
  <2> HIDE DEF longer
  <2>11. Reading(line, i + 1, p, Len(args) + 1, longer)
    BY <2>2, <2>4, <2>6, <2>7, <2>8 DEF Reading
  <2> HIDE DEF t, args, arg
  <2> QED BY <1>3, <2>9, <2>10, <2>11 DEF Understood
<1> QED BY <1>8, <1>9, <1>10, <1>11, <1>12 DEF ch

LEMMA LineUnderstood ==
  ASSUME NEW line \in Seq(Char)
  PROVE  Understood(line, Len(line), Parsing(line)[Len(line)])
<1> DEFINE S == { i \in 0 .. Len(line) : Understood(line, i, Parsing(line)[i]) }
<1>1. Len(line) \in Nat
  BY LenProperties
<1>2. 0 \in S
  BY <1>1, ParsingIs, UnderstoodFirst
<1>3. ASSUME NEW i \in 0 .. Len(line) - 1, i \in S PROVE i + 1 \in S
  <2>1. Parsing(line)[i + 1] = ParseChar(Parsing(line)[i], line[i + 1])
    BY ParsingIs
  <2>2. Understood(line, i + 1, Parsing(line)[i + 1])
    BY <1>3, <2>1, UnderstoodNext
  <2> QED BY <1>1, <2>2
<1> HIDE DEF S
<1>4. \A i \in 0 .. Len(line) : i \in S
  BY <1>1, <1>2, <1>3, UpTo
<1>5. Len(line) \in S
  BY <1>1, <1>4
<1> QED BY <1>5 DEF S

(* When the number of arguments is that of the words, or the largest, the  *)
(* arguments are the words.                                                *)
LEMMA AllWordsRead ==
  ASSUME NEW line \in Seq(Char), NEW args, Read(line, Len(line), args),
         Len(args) < MaxArgs => Len(args) = Cardinality(Starts(line))
  PROVE  args = WordsOf(line)
<1> DEFINE count == Cardinality(Starts(line))
           indices == { k \in 1 .. MaxArgs : k <= count }
<1>1. /\ Len(line) \in Nat /\ Len(args) \in Nat /\ MaxArgs \in Nat \ {0} /\ count \in Nat
      /\ args \in [1 .. Len(args) -> Seq(Char)] /\ Len(args) <= MaxArgs
      /\ Starts(line) \subseteq 1 .. Len(line)
  BY LenProperties, CountFacts, FS_CardinalityType, ShellAssumption DEF Read
<1>0. Len(args) < MaxArgs \/ Len(args) = MaxArgs
  <2>1. Len(args) \in Int /\ MaxArgs \in Int /\ Len(args) <= MaxArgs
    BY <1>1
  <2> QED BY <2>1
<1>2. count >= Len(args)
  <2>1. CASE Len(args) < MaxArgs
    BY <1>1, <2>1
  <2>2. CASE Len(args) = MaxArgs
    <3>1. PICK p : IsWord(line, p, Len(args))
      BY <1>1, <2>2 DEF Read
    <3>2. p \in 0 .. Len(line) /\ Len(line) \in 0 .. Len(line) /\ p <= Len(line)
      BY <1>1, <3>1 DEF IsWord
    <3>3. Count(line, p) <= count /\ Count(line, p) = Len(args)
      BY <3>1, <3>2, CountFacts DEF IsWord
    <3> QED BY <1>1, <3>3
  <2> QED BY <1>0, <2>1, <2>2
<1>3. indices = 1 .. Len(args)
  <2>1. CASE Len(args) < MaxArgs
    BY <1>1, <2>1
  <2>2. CASE Len(args) = MaxArgs
    BY <1>1, <1>2, <2>2
  <2> QED BY <1>0, <2>1, <2>2
<1>4. ASSUME NEW n \in 1 .. Len(args)
      PROVE  args[n] = Cut(WordAt(line, NthStart(line, n)), MaxArgLen)
  <2>1. PICK p : IsWord(line, p, n) /\ args[n] = Cut(WordAt(line, p), MaxArgLen)
    BY DEF Read
  <2>2. NthStart(line, n) = p
    BY <2>1, NthStartIs DEF IsWord
  <2> QED BY <2>1, <2>2
<1>5. WordsOf(line) = [n \in indices |-> Cut(WordAt(line, NthStart(line, n)), MaxArgLen)]
  BY DEF WordsOf
<1> HIDE DEF indices
<1> QED BY <1>1, <1>3, <1>4, <1>5

LEMMA ParseIsWords ==
  ASSUME NEW line \in Seq(Char)
  PROVE  Parse(line) = WordsOf(line) /\ Parse(line) \in Seq(Seq(Char))
<1> DEFINE s == Parsing(line)[Len(line)]
<1>1. Len(line) \in Nat /\ Len(line) \in 0 .. Len(line) /\ MaxArgs \in Nat \ {0}
  BY LenProperties, ShellAssumption
<1>2. Understood(line, Len(line), s)
  BY LineUnderstood
<1>3. Parse(line) = IF s.arg # <<>> /\ Len(s.args) < MaxArgs THEN Append(s.args, s.arg) ELSE s.args
  BY DEF Parse
<1> HIDE DEF s
<1>4. Read(line, Len(line), s.args) /\ s.args \in Seq(Seq(Char)) /\ Len(s.args) \in Nat
  BY <1>2, LenProperties DEF Understood, Read
<1>5. Count(line, Len(line)) = Cardinality(Starts(line))
  BY CountFacts
<1>6. CASE s.arg # <<>> /\ Len(s.args) < MaxArgs
  <2>1. PICK p : Reading(line, Len(line), p, Len(s.args) + 1, s.arg)
    BY <1>2, <1>6 DEF Understood
  <2> DEFINE args == Append(s.args, s.arg)
  <2>2. /\ args \in Seq(Seq(Char)) /\ Len(args) = Len(s.args) + 1
        /\ Read(line, Len(line), args)
    <3>1. PICK i : i = Len(line)
      OBVIOUS
    <3>2. /\ i \in 0 .. Len(line) /\ (i = Len(line) \/ line[i + 1] = Blank)
          /\ Read(line, i, s.args) /\ Reading(line, i, p, Len(s.args) + 1, s.arg)
      BY <1>1, <1>4, <2>1, <3>1
    <3>3. /\ args \in Seq(Seq(Char)) /\ Len(args) = Len(s.args) + 1 /\ Read(line, i, args)
      BY <1>6, <3>2, ReadWord
    <3> QED BY <3>1, <3>3
  <2>3. Len(args) = Cardinality(Starts(line))
    BY <1>5, <2>1, <2>2 DEF Reading
  <2> HIDE DEF args
  <2>4. args = WordsOf(line)
    BY <2>2, <2>3, AllWordsRead
  <2> QED BY <1>3, <1>6, <2>2, <2>4 DEF args
<1>7. CASE ~(s.arg # <<>> /\ Len(s.args) < MaxArgs)
  <2>1. Len(s.args) < MaxArgs => Len(s.args) = Cardinality(Starts(line))
    BY <1>2, <1>5, <1>7 DEF Understood, Between
  <2>2. s.args = WordsOf(line)
    BY <1>4, <2>1, AllWordsRead
  <2> QED BY <1>3, <1>4, <1>7, <2>2
<1> QED BY <1>6, <1>7

(* Every line a user can have typed, recalled or completed is split into   *)
(* its words, and an alias is replaced by the words of its line.           *)
THEOREM LinesAreSplit == Spec => []ArgumentsAreWords
<1>1. BrowsedIsOnTheLine => ArgumentsAreWords
  <2> SUFFICES ASSUME shell_buffer \in Line PROVE ArgumentsAreWords
    BY DEF BrowsedIsOnTheLine, TypeOK
  <2>1. shell_buffer \in Seq(Char) /\ AliasLine \in Seq(Char)
    BY LineIsSeq, ShellAssumption DEF Char
  <2>2. Parse(shell_buffer) = WordsOf(shell_buffer) /\ Parse(AliasLine) = WordsOf(AliasLine)
    BY <2>1, ParseIsWords
  <2>3. Head(WordsOf(shell_buffer)) = WordsOf(shell_buffer)[1]
    BY <2>1, ParseIsWords DEF Head
  <2> QED BY <2>2, <2>3 DEF ArgumentsAreWords, Argv
<1> QED BY <1>1, BrowsedStaysOnTheLine, PTL
=============================================================================
