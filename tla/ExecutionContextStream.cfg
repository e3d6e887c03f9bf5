SPECIFICATION Spec
CONSTANTS
  child1 = child1
  child2 = child2
  parent = parent
  other = other
  Contexts = {child1, child2, parent, other}
  Live <- MCLive
  Parent <- MCParent
  Others <- MCOthers
  Threads = {t1}
  Loader = t1
  Instances = {i1}
  Null = Null
  NoCall = NoCall
  Capacity = 4
  Pointers = {0, 1}
  Imports <- AllImports
  Checked = TRUE
INVARIANT StreamToggleTakesFields
