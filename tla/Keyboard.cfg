\* A buffer of three slots (two characters), a letter that has a Ctrl meaning,
\* a digit and a function key.
SPECIFICATION Spec
CONSTANTS
  BufferSize = 3
  Letters = {p}
  Symbols = {one}
  CtrlCombos = {p}
  Silent = {f1}
  NoChar = NoChar
  p = p
  one = one
  f1 = f1
INVARIANTS
  ReaderUndisturbed
PROPERTIES
  ImplementsFifo
  EveryKeyIsRead
