SPECIFICATION Spec
CONSTANTS
  t1 = t1
  t2 = t2
  reader = reader
  opaque = opaque
  None = None
  Tables <- MCTables
  Readers <- MCReaders
  Opaque <- MCOpaque
  Plans <- MCPlans
  Retrievals <- MCRetrievals
  Layers <- MCLayers
  MaxPasses = 4
CHECK_DEADLOCK FALSE
INVARIANTS HeldToRecord DivergenceIsReal AdmittedReads
