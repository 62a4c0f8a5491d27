SPECIFICATION Spec
SYMMETRY Symmetry
CONSTANTS
  r1 = r1
  r2 = r2
  w1 = w1
  c1 = c1
  c2 = c2
  v1 = v1
  v2 = v2
  Worlds <- MCWorlds
  Requests = {r1, r2}
  Workers = {w1}
  Id = {c1, c2}
  MaxRows = 1
  None = None
INVARIANTS
  CredentialsFit
  SecretsAreLastGiven
  JobsBuild
  AnswersFailTorn
