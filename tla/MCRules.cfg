\* Two contexts; two edits of a tree in order; functions of three statements in a loop of three rounds.
SPECIFICATION PartSpec
CONSTANTS
  Contexts = {"orders", "stock"}
  Leaves = {"m", "test_m", "conftest"}
  SpeaksOwn = TRUE
  First = {opened, held}
  Added = {expired}
  MaxEdits = 2
  MaxStatements = 3
  MaxRounds = 3
CHECK_DEADLOCK FALSE
INVARIANTS
  RunnersMeet
  OutcomesAreDecided
  SpecsAreUsedUp
PROPERTIES
  ImportChainsEnd
  EngineMeets
