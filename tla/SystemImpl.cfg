SPECIFICATION Spec
CONSTANTS
  Move = Move
  Grow = Grow
  Threads = {t1, t2}
  Systems = {Move, Grow}
  Modules <- EveryModule
  PoolSize = 2
  NoMinst = NoMinst
  Idle = Idle
  MaxLoads = 2
  MaxIndex = 3
SYMMETRY Symmetry
INVARIANTS
  TypeOK
  OfferedSystemsRun
  FreshInstance
  SharedOnlyAfterFullRound
PROPERTIES
  ImplementsHost RegistersOnlyCompletePool
