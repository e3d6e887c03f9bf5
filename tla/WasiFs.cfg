\* Two threads, two virtual and two real files, two descriptors, two opens.
CONSTANTS
  long = long
  short = short
  Threads = {t1, t2}
  VirtualPaths = {v1, v2}
  RealPaths = {long, short}
  Size <- MCSize
  BufLen = 1
  MaxIov = 2
  NoCall = NoCall
  MaxFd = 12
  MaxFiles = 2
SYMMETRY Symmetry
SPECIFICATION Spec
INVARIANTS
  TypeOK
  LatestGrantStands
  ReadsOwnFile
  StaleFileNeedsRacedClose
  StreamInOrder
  OpenFilesAreFound
