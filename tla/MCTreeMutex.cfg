SPECIFICATION FairSpec
CONSTANTS NumThreads = 4
          MaxThreads = 17
INVARIANTS Inv OneThreadPerSide UnlockRetracesLock
PROPERTIES NodesArePeterson LockRefinement
