SPECIFICATION Spec
CONSTANTS
  m1 = m1
  m2 = m2
  Commands <- MCCommands
  Goals <- MCGoals
  None = None
INVARIANTS
  SchemaIsAtVersion
  HeadIsModels
  FailsOnlyWhenDisturbed
