\* As LogLines.cfg, against what logger.hh says of the messages.
CONSTANTS
  Chars = {a, newline}
  Newline = newline
  IntMax = 6
  MaxLen = 6
SPECIFICATION Spec
INVARIANT MessagesAreLines
CHECK_DEADLOCK FALSE
