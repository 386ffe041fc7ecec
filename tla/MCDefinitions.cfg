SPECIFICATION Spec
CONSTANTS
  one = one
  two = two
  many = many
  kid = kid
  Keys = {"x", "y", "childWorkflowId", "childWorkflowIds"}
  Literals = {one, two, many, kid}
  Rank <- MCRank
  NoGuard = NoGuard
  ChildId = kid
  Names = {"order", "refund"}
  Seeders = {"s1", "s2", "s3"}
  Files <- MCFiles
  Bad = Bad
  Instances = {"i1"}
  Answers <- MCAnswers
  None = None
VIEW MCView
INVARIANTS
  DefinitionsComplete
PROPERTIES
  SeedingIsAllOrNothing
  RunsAsWritten
CHECK_DEADLOCK FALSE
