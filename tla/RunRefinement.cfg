SPECIFICATION Spec
CONSTANTS
  Runs = {r1, r2}
  Manual = {r1, r2}
  p1 = p1
  Processes = {p1}
  ProcessOf <- OneProcess
  Transfers = {t1}
  Workers = {w1, w2}
  Stoppers = {s1}
  BrokerFaults = {"redelivery"}
  MaxRedeliveries = 1
  MaxFaults = 2
  None = None
\* The system may stop: no user is obliged to start another run.
CHECK_DEADLOCK FALSE
INVARIANT OnlyFaultsStrand
PROPERTY ImplementsContract
