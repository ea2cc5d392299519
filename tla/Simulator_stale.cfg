SPECIFICATION Spec
CONSTANTS
  Sims = {"s1"}
  Threads = {"t1"}
  Of <- MCOwn
  Spellings <- MCSpelling
  Exts <- MCOneExt
  Names <- MCNames
  Vals <- MCOneVal
  SysPath <- MCSysPath
  SysPathext <- MCPathext
  SysVars <- MCSysVars
  Known <- MCKnown
  SystemPaths <- MCSystemPaths
  BashVars <- MCBashVars
  DefaultExts <- MCDefaultExts
  MaxPaths = 1
  MaxExts = 1
  MaxVals = 1
  SetUpFirst = FALSE
INVARIANTS
  MakesCurrentBlock
