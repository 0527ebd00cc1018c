CONSTANTS
  old = old
  new = new
  Files <- MCFiles
  Present <- MCPresent
  Callers = {c1, c2}
  NoFile = NoFile
  NoCaller = NoCaller
  MaxEdits = 2
SPECIFICATION SVFairSpec
INVARIANTS
  VmInv
PROPERTIES
  VmAnswers
  LastSaveLoaded
CHECK_DEADLOCK FALSE
