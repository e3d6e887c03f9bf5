\* Every string of up to fourteen characters, newlines among them, and ints from -7
\* to 6: positions from 7 on are narrowed to negative ints, the last one to -1.
CONSTANTS
  Chars = {a, newline}
  Newline = newline
  IntMax = 6
  MaxLen = 14
SPECIFICATION Spec
INVARIANTS TypeOK RestIsLogged MessagesBeginLines SplitIsMessages
PROPERTY SplittingEnds
CHECK_DEADLOCK FALSE
