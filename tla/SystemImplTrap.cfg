SPECIFICATION Spec
CONSTANTS
  Move = Move
  Grow = Grow
  Threads = {t1}
  Systems = {Move, Grow}
  Modules <- SoundModule
  PoolSize = 1
  NoMinst = NoMinst
  Idle = Idle
  MaxLoads = 1
  MaxIndex = 2
PROPERTY TrapIsReported
