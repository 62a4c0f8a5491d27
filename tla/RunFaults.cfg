SPECIFICATION FairSpec
CONSTANTS
  Runs = {r1}
  Manual = {}
  p1 = p1
  Processes = {p1}
  ProcessOf <- OneProcess
  Transfers = {t1}
  Workers = {w1, w2}
  Stoppers = {s1, s2}
  BrokerFaults = {"ack_loss", "redelivery"}
  MaxRedeliveries = 2
  MaxFaults = 2
  None = None
\* The system may stop: no user is obliged to start another run.
CHECK_DEADLOCK FALSE
INVARIANTS OncePerWorker AtMostOnce TimestampsMatchStatus
PROPERTIES StopBeforeLoadIsEffective CreatedIsLeft StartedEnds
