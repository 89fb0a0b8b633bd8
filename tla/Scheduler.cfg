SPECIFICATION Spec
CONSTANTS
  Mailboxes = {m1, m2}
  Ticks = {t1, t2}
  Intervals = {1, 2}
  DefaultInterval = 2
  Reachable = {m1}
  Exposed = {m2}
  MaxLag = 1
INVARIANTS TypeOK
PROPERTIES EveryMonitoredIsScanned StoppedIsLeftAlone
