SPECIFICATION Spec
CONSTANTS
  Sims = {"s1", "s2"}
  Threads = {"t1", "t2"}
  Of <- MCOwn
  Spellings <- MCSpelling
  Exts <- MCOneExt
  Names <- MCNames
  Vals <- MCOneVal
  SysPath <- MCSysPath
  SysPathext <- MCPathext
  SysVars <- MCSysVars
  Known <- MCKnown
  SystemPaths <- MCSystemPaths
  BashVars <- MCBashVars
  DefaultExts <- MCDefaultExts
  MaxPaths = 1
  MaxExts = 1
  MaxVals = 1
  SetUpFirst = TRUE
INVARIANTS
  TypeOK
  MakesCurrentBlock
