\* As WasiFs.cfg, with one thread.
CONSTANTS
  long = long
  short = short
  Threads = {t1}
  VirtualPaths = {v1, v2}
  RealPaths = {long, short}
  Size <- MCSize
  BufLen = 1
  MaxIov = 2
  NoCall = NoCall
  MaxFd = 12
  MaxFiles = 2
SPECIFICATION Spec
INVARIANT SetFilesAreOpen
