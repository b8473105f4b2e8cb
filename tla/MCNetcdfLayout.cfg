CONSTANTS
  MaxVars = 3
  HeaderBytes = 8
  Word = 36
  Files <- MCFiles
SPECIFICATION BuildSpec
INVARIANTS
  AppendsWhereDeclared
  ReadsBackWhatWasGiven
\* build returns.
CHECK_DEADLOCK FALSE
