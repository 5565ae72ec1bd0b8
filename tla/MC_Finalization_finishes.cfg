SPECIFICATION FairSpec
CONSTANTS
  c1 = c1
  Command = {c1}
  Asked = {"keyed"}
  Stray = {TRUE, FALSE}
  KnowledgeRequired = TRUE
  Operator = FALSE
  MaxEdits = 2
  MaxCrashes = 0
PROPERTIES Finishes
CHECK_DEADLOCK FALSE
