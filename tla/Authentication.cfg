SPECIFICATION MCSpec
CHECK_DEADLOCK FALSE
CONSTANTS
  u1 = u1
  r1 = r1
  r2 = r2
  s1 = s1
  Users <- MCUsers
  Configured <- MCUsers
  Requests <- MCRequests
  Scripts <- MCScripts
  MaxTokens = 2
  MaxKeys = 2
  None = None
INVARIANTS
  LoggedOutIsNotServed
  SuperusersStay
PROPERTIES
  LogoutIsFinal
  ScriptsFinish
  KeyIsRefreshed
