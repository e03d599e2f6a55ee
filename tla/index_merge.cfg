SPECIFICATION Spec
CONSTANTS
  x1 = x1
  e1 = e1
  c1 = c1
  d1 = d1
  d2 = d2
  IndexKeys = {x1}
  EmailKeys = {e1}
  ContactKeys = {}
  DelAuths = {d1, d2}
  NoDA = NoDA
  Size <- MCSize
  Limit = 9
  Margin = 3
  StoreDuration = 1
  UpdatePeriod = 1
  MaxTime = 2
  MaxEntries = 2
  WriteResults = {TRUE}
PROPERTIES IndexMerged
SYMMETRY Symmetry
VIEW Store
