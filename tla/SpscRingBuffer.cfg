SPECIFICATION Spec
CONSTANTS
  Size = 3
  MaxEnqueues = 10
INVARIANTS Inv NoDataRace StaleIndexNeverMisleads
PROPERTIES ImplementsFifo
