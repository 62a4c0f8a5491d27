SPECIFICATION Spec
CONSTANTS
  Runs = {r1}
  Manual = {r1}
  p1 = p1
  Processes = {p1}
  ProcessOf <- OneProcess
  Transfers = {t1}
  Workers = {w1}
  Stoppers = {s1}
  BrokerFaults = {}
  MaxRedeliveries = 0
  MaxFaults = 0
  None = None
\* The system may stop: no user is obliged to start another run.
CHECK_DEADLOCK FALSE
PROPERTY FinishedIsNotStopped
