SPECIFICATION FairSpec
CONSTANTS
  Transfers = {t1, t2}
  Crons = {c1, c2, bad}
  BadCrons = {bad}
  Writers = {a1, a2}
  MaxClock = 3
  MaxCrashes = 1
  None = None
INVARIANTS WatermarkSound
PROPERTIES Converges OrphanJobsGo
