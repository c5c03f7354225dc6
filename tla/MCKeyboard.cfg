SPECIFICATION CSpec
CONSTANTS
  Size = 2
  Width = 4
  Keys = {8, 13, 32, 45, 72, 104}
  NUL = 0
  MaxPending = 2
  Scancodes = {12, 14, 28, 35, 41, 57, 58, 82, 90, 174}
  PastTable = {0}
  MaxLine = 4
  MaxArgument = 3
  EraseEmpty = FALSE
  MaxTyped = 5
INVARIANTS
  CTypeOK
  EndsAgree
  LineIsWhatWasTyped
  ArgumentsAreWords
  RunsCommand
PROPERTIES
  ImplementsKeyQueue
  EnterRuns
