SPECIFICATION FairSpec
CONSTANTS
  s1 = s1
  s2 = s2
  n1 = n1
  Sources = {s1, s2}
  Names = {n1}
  NameOf <- SameName
  Targets = {t1}
  Workers = {w1, w2}
  FirstValue <- MinusOne
  MaxRow = 2
  Limit <- Limits
  MaxFailures = 1
  MaxCopies = 3
  None = None
INVARIANTS MarkIsCovered CopiesPerFailure
PROPERTIES FullIsExact RowsArrive
CHECK_DEADLOCK FALSE
