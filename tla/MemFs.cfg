\* Three slots, two names that fit and one that is cut, one slash, four entries ever.
SPECIFICATION Spec
CONSTANTS
  MaxFiles = 3
  ShortNames = {a, b}
  LongNames = {long}
  Prefix = b
  Slashes = 1
  Texts = {empty, text}
  Empty = empty
  Greeting = text
  Hello = text
  Bin = a
  HelloTxt = b
  IdBound = 5
INVARIANTS
  AncestorsAreOlder
  FailuresTouchNothing
  CopyAndMoveFaithful
PROPERTIES
  ImplementsDirectoryTree
CHECK_DEADLOCK FALSE
