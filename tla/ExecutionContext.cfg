SPECIFICATION Spec
CONSTANTS
  child1 = child1
  child2 = child2
  parent = parent
  other = other
  Contexts = {child1, child2, parent, other}
  Live <- MCLive
  Parent <- MCParent
  Others <- MCOthers
  Threads = {t1, t2}
  Loader = t1
  Instances = {i1, i2}
  Null = Null
  NoCall = NoCall
  Capacity = 6
  Pointers = {0}
  Imports = {"get", "same", "parent", "other", "wasi"}
  Checked = TRUE
INVARIANTS
  TypeOK
  CallMemOnlyInCalls
  MemoryBeforeContext
  GivenHandlesWork
  OverrunNeedsFullCallMem
  RuntimeCallsStayInExecution
