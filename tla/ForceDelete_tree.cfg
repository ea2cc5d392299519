SPECIFICATION FairSpec
CONSTANTS
  Worker = {1, 2}
  Node = {"d", "s", "f", "l", "o", "x", "n"}
  Dirs = {"d", "s", "o"}
  Links = {"l"}
  Parent <- MCParent
  Top = "top"
  LinkedTo <- MCLinkedTo
  Targets = {"d", "f"}
  Inside = {"d", "s", "f", "l", "n"}
  Late = {"n"}
  Settings <- MCSettings
INVARIANTS
  OkMeansGone
  OutsideKept
  MarkedIsGone
  AloneDeletes
PROPERTIES
  EveryCallReturns
