SPECIFICATION Spec
CONSTANTS
  None = None
  Defaults <- MCDefaults
  NeverBindNames <- MCNeverBind
  ControlPlaneNames <- MCControlPlane
  OpaqueNames <- MCOpaque
  Dispatchers <- MCDispatchers
  CollationNames <- MCCollations
  Edges <- MCEdges
  Entries <- MCEntries
  Texts <- MCBodyTexts
  LayerPairs <- MCLayerPairs
  Dependency <- MCDependency
CHECK_DEADLOCK FALSE
INVARIANT BodiesOpaque
