CONSTANTS
  Root = "root"
  Subdirs = {"d"}
  Links = {"l", "m"}
  Files = {"f"}
  Parent <- MCParent
  Paths <- MCPaths
  Targets <- MCTargets
  MaxDepth = 3
SPECIFICATION Spec
INVARIANT LocationNamesTarget
PROPERTIES ImplementsWalk Terminates
