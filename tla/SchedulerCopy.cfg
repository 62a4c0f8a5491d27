SPECIFICATION FairSpec
CONSTANTS
  Transfers = {t1, t2}
  Crons = {c1}
  BadCrons = {}
  Writers = {a1}
  MaxClock = 2
  MaxCrashes = 0
  None = None
PROPERTY EveryTransferIsScheduled
