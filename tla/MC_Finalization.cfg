SPECIFICATION Spec
CONSTANTS
  c1 = c1
  Command = {c1}
  Asked = {"keyed", "plain"}
  Stray = {TRUE, FALSE}
  KnowledgeRequired = TRUE
  Operator = TRUE
  MaxEdits = 2
  MaxCrashes = 2
INVARIANTS OneCommit FinishedIsDelivered
PROPERTIES NoLostCommit CommitIsProven DeliversAsPromised
