\* Two threads, four calls of fd_write or consume_logs, up to two iovecs each.
CONSTANTS
  t1 = t1
  t2 = t2
  a = a
  b = b
  Threads = {t1, t2}
  Nobody = Nobody
  Newline = newline
  Chars = {a, b, newline}
  Prints <- MCPrints
  IntMax = 16
  MaxIov = 2
  MaxCalls = 4
SPECIFICATION Spec
INVARIANTS TypeOK NothingLost DeliveredOnce DeliveredInOrder SomeCallGoesOn
PROPERTIES EveryCallReturns ImplementsQueue
CHECK_DEADLOCK FALSE
