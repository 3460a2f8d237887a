\* Two edits of the voice spec; three runs of two specs; templates of five and of eight tokens.
SPECIFICATION PartSpec
CONSTANTS
  Names <- MCNames
  Verbs <- MCVerbs
  ClassOf <- MCClassOf
  Roots <- MCRoots
  Ordered <- MCOrdered
  MaxEdits = 2
  Commands = {r1, r2, r3}
  SpecFiles = {"voice", "shop"}
  TreePaths <- MCPaths
SYMMETRY Alike
CHECK_DEADLOCK FALSE
INVARIANTS
  DocumentsBecomeTrees
  TemplatesAreExpanded
PROPERTIES
  RunsLeaveWholeTrees
