\* Two writes and two loads; the trees of the ledger and the repository are in the module.
SPECIFICATION PartSpec
CONSTANTS
  Paths <- Directories
  Ordered <- OrderedRepos
  MaxEdits = 2
  Plain = TRUE
  Shallow = TRUE
  Long <- LongFiles
  Twins <- TwinFiles
  Logging <- LoggingHooks
  Guiding <- GuidingHooks
  w1 = w1
  w2 = w2
  l1 = l1
  l2 = l2
SYMMETRY Alike
CHECK_DEADLOCK FALSE
INVARIANTS
  GreenMeansRun
PROPERTIES
  LedgerSettles
  HooksAreFaithful
