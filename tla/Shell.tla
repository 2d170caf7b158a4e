------------------------------- MODULE Shell -------------------------------
(***************************************************************************)
(* The command line of the shell, kernel/kernel.c: what the main loop of   *)
(* kernel_main does with each character that keyboard_get_char returns,    *)
(* the ring of old commands that Ctrl+P and Ctrl+N browse, completion of   *)
(* a command by Tab, and how a line is split into arguments.               *)
(*                                                                         *)
(* What the commands do is in the modules of their components; here they   *)
(* end as soon as their line is in the history.                            *)
(***************************************************************************)
EXTENDS Integers, FiniteSets, Sequences, SequencesExt

CONSTANTS HistorySize,  (* HISTORY_SIZE: 10                                *)
          MaxLine,      (* the longest line: 255                           *)
          MaxArgs,      (* MAX_ARGS: 8                                     *)
          MaxArgLen,    (* MAX_ARG_LEN - 1: 63                             *)
          Letters, Blank,  (* the characters                               *)
          Commands,     (* what Tab completes to, in order of preference   *)
          AliasName, AliasLine,  (* one of the aliases of init_aliases     *)
          MaxCommands   (* bound of the model: commands remembered ever    *)

ASSUME ShellAssumption == /\ {HistorySize, MaxArgs, MaxArgLen} \subseteq Nat \ {0}
                          /\ MaxLine \in Nat /\ MaxCommands \in Nat
                          /\ Blank \notin Letters
                          /\ Commands \in Seq(Seq(Letters \cup {Blank}))
                          /\ AliasLine \in Seq(Letters \cup {Blank})

VARIABLES shell_buffer,     (* its first shell_pos characters              *)
          command_history,
          history_count,    (* commands remembered ever                    *)
          history_current   (* the one on the line, or -1                  *)

vars == <<shell_buffer, command_history, history_count, history_current>>

Char == Letters \cup {Blank}
Line == UNION { [1 .. n -> Char] : n \in 0 .. MaxLine }
Slot == 0 .. HistorySize - 1

Cut(s, n) == SubSeq(s, 1, IF Len(s) > n THEN n ELSE Len(s))

-----------------------------------------------------------------------------
\* parse_command_line: the arguments so far, and the one that is being read.
ParseChar(s, ch) ==
  IF Len(s.args) = MaxArgs THEN s
  ELSE IF ch = Blank THEN IF s.arg = <<>> THEN s ELSE [args |-> Append(s.args, s.arg), arg |-> <<>>]
  ELSE IF Len(s.arg) < MaxArgLen THEN [s EXCEPT !.arg = Append(@, ch)]
  ELSE s

\* Its loop: what is known after n characters.
Parsing(line) ==
  LET s[n \in 0 .. Len(line)] == IF n = 0 THEN [args |-> <<>>, arg |-> <<>>]
                                 ELSE ParseChar(s[n - 1], line[n])
  IN s

Parse_LastLost(line) == Parsing(line)[Len(line)].args
Parse(line) ==
  LET s == Parsing(line)[Len(line)]
  IN IF s.arg # <<>> /\ Len(s.args) < MaxArgs THEN Append(s.args, s.arg) ELSE s.args

\* The beginning of shell_process_command: an alias replaces the whole line.
Argv(line) ==
  IF Parse(line) # <<>> /\ Head(Parse(line)) = AliasName THEN Parse(AliasLine) ELSE Parse(line)

-----------------------------------------------------------------------------
\* add_to_history.
RepeatsLast == /\ history_count > 0
               /\ command_history[(history_count - 1) % HistorySize] = shell_buffer

RingIndex_OffByOne == (history_count + 1) % HistorySize
RingIndex == history_count % HistorySize

AddToHistory ==
  IF RepeatsLast THEN UNCHANGED <<command_history, history_count>>
  ELSE /\ command_history' = [command_history EXCEPT ![RingIndex] = shell_buffer]
       /\ history_count' = history_count + 1

Oldest_AllEver == 0
Oldest == history_count - (IF history_count < HistorySize THEN history_count ELSE HistorySize)

\* get_history_command and display_command.
Show(i) ==
  /\ history_current' = i
  /\ shell_buffer' = command_history[i % HistorySize]
  /\ UNCHANGED <<command_history, history_count>>

\* tab_complete_command: the first of the commands that begins with the word.
Completions(word) == { i \in 1 .. Len(Commands) : IsPrefix(word, Commands[i]) }
Completion(word) == Commands[CHOOSE i \in Completions(word) : \A j \in Completions(word) : i <= j]

ResetPosition_Kept == history_current' = history_current
ResetPosition == history_current' = -1

Init ==
  /\ shell_buffer = <<>>
  /\ command_history = [i \in Slot |-> <<>>]
  /\ history_count = 0
  /\ history_current = -1

Enter ==
  /\ IF shell_buffer # <<>> THEN AddToHistory ELSE UNCHANGED <<command_history, history_count>>
  /\ shell_buffer' = <<>>
  /\ history_current' = -1

Backspace ==
  /\ shell_buffer' = IF shell_buffer = <<>> THEN <<>> ELSE Front(shell_buffer)
  /\ ResetPosition
  /\ UNCHANGED <<command_history, history_count>>

HasRoom == Len(shell_buffer) < MaxLine

Type(ch) ==
  /\ shell_buffer' = IF HasRoom THEN Append(shell_buffer, ch) ELSE shell_buffer
  /\ ResetPosition
  /\ UNCHANGED <<command_history, history_count>>

\* Tab: only the first word is completed, and it must begin the line.
FirstWord == shell_buffer # <<>> /\ \A i \in 2 .. Len(shell_buffer) : shell_buffer[i - 1] # Blank
Tab ==
  /\ shell_buffer' = IF FirstWord /\ Completions(shell_buffer) # {}
                     THEN Cut(Completion(shell_buffer), MaxLine) ELSE shell_buffer
  /\ ResetPosition
  /\ UNCHANGED <<command_history, history_count>>

CtrlP ==
  /\ history_count > 0
  /\ \/ history_current = -1 /\ Show(history_count - 1)
     \/ history_current > Oldest /\ Show(history_current - 1)

CtrlN ==
  /\ history_current # -1
  /\ IF history_current < history_count - 1 THEN Show(history_current + 1)
     ELSE /\ history_current' = -1
          /\ shell_buffer' = <<>>
          /\ UNCHANGED <<command_history, history_count>>

Next ==
  \/ history_count < MaxCommands /\ Enter
  \/ Backspace
  \/ \E ch \in Char : Type(ch)
  \/ Tab
  \/ CtrlP
  \/ CtrlN

Spec == Init /\ [][Next]_vars

-----------------------------------------------------------------------------
(* Types; the line leaves room for its terminator in shell_buffer.         *)
TypeOK ==
  /\ shell_buffer \in Line
  /\ command_history \in [Slot -> Line]
  /\ history_count \in Nat
  /\ history_current \in {-1} \cup (0 .. history_count - 1)

(* What the user browses is on the line, and still in the ring: the        *)
(* position counts commands ever, of which only the last are kept.         *)
BrowsedIsOnTheLine ==
  /\ TypeOK
  /\ history_current # -1 =>
       /\ history_current >= Oldest
       /\ shell_buffer = command_history[history_current % HistorySize]

\* The words of a line: longest runs of letters, the first MaxArgs, each cut.
Starts(line) ==
  { i \in 1 .. Len(line) : line[i] # Blank /\ (i = 1 \/ line[i - 1] = Blank) }
StartsUpTo(line, i) == { j \in Starts(line) : j <= i }
NthStart(line, n) == CHOOSE i \in Starts(line) : Cardinality(StartsUpTo(line, i)) = n
WordAt(line, i) ==
  SubSeq(line, i, CHOOSE j \in i .. Len(line) : /\ \A k \in i .. j : line[k] # Blank
                                                /\ j = Len(line) \/ line[j + 1] = Blank)
WordsOf(line) ==
  [n \in { k \in 1 .. MaxArgs : k <= Cardinality(Starts(line)) }
     |-> Cut(WordAt(line, NthStart(line, n)), MaxArgLen)]

(* A line is split into its words, or those of the line an alias stands    *)
(* for: none is lost at the end of the line, joined to the next one, or    *)
(* put after the last that there is room for.                              *)
ArgumentsAreWords ==
  Argv(shell_buffer) = IF WordsOf(shell_buffer) # <<>> /\ WordsOf(shell_buffer)[1] = AliasName
                       THEN WordsOf(AliasLine) ELSE WordsOf(shell_buffer)

(* The ring and the position in it behave as the list of the last commands *)
(* and a distance from its end, in every order of commands, editing,       *)
(* completion and browsing, also after the ring has wrapped.               *)
Kept == [i \in 1 .. history_count - Oldest |-> command_history[(Oldest + i - 1) % HistorySize]]

History == INSTANCE CommandHistory
             WITH Lines <- Line, Size <- HistorySize, log <- Kept, line <- shell_buffer,
                  back <- IF history_current = -1 THEN 0 ELSE history_count - history_current

ImplementsCommandHistory == History!Spec
=============================================================================
