SPECIFICATION Spec
CONSTANTS
  x1 = x1
  e1 = e1
  c1 = c1
  d1 = d1
  d2 = d2
  IndexKeys = {x1}
  EmailKeys = {e1}
  ContactKeys = {c1}
  DelAuths = {d1, d2}
  NoDA = NoDA
  Size <- MCSize
  Limit = 8
  Margin = 3
  StoreDuration = 1
  UpdatePeriod = 2
  MaxTime = 2
  MaxEntries = 2
  WriteResults = {TRUE, FALSE}
INVARIANTS TypeOK SummaryExact
PROPERTIES RecordsPermanent StoresWithinLimit
VIEW Files
