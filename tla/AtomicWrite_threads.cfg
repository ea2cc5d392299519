SPECIFICATION Spec
CONSTANTS
  Writers = {w1, w2}
  PlainWriters = {}
  Readers = {}
  Pids = {p1}
  Pid <- OnePid
  Texts = {t1, t2}
  Size <- MCSmallSize
  MaxRead = 2
  Target = Target
  Absent = Absent
  NoText = NoText
  w1 = w1
  w2 = w2
  r1 = r1
  p1 = p1
  p2 = p2
  t1 = t1
  t2 = t2
INVARIANTS
  TargetWhole
