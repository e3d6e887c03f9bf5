SPECIFICATION Spec
CONSTANTS
  Move = Move
  Grow = Grow
  Systems = {Move, Grow}
  Modules <- MCModules
  Lists <- MCLists
  PoolSize = 2
  Null = Null
  NoModule = NoModule
  MaxLoads = 2
INVARIANTS
  TypeOK
  ReleasedOnce
  NothingLeaked
  StoreOutlivesItsParts
  BorrowedStayValid
  SystemsUseOwnInstance
PROPERTY ImplementsLoad
