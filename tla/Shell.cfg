\* Three commands kept of at most five, lines of three characters.
SPECIFICATION Spec
CONSTANTS
  a = a
  HistorySize = 3
  MaxLine = 3
  MaxArgs = 2
  MaxArgLen = 2
  Letters = {a}
  Blank = blank
  Commands <- SomeCommands
  AliasLine <- SomeLine
  AliasName <- SomeName
  MaxCommands = 5
INVARIANTS
  BrowsedIsOnTheLine
  ArgumentsAreWords
PROPERTIES
  ImplementsCommandHistory
CHECK_DEADLOCK FALSE
