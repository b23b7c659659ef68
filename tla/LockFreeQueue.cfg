SPECIFICATION FairSpec
CONSTANTS Threads = {t1, t2}
          MaxEnqueues = 3
          MaxDequeues = 2
INVARIANTS Inv NoUseAfterFree NothingLeaks
PROPERTIES FalseMeansEmpty ImplementsFifo CallsReturn
CHECK_DEADLOCK FALSE
