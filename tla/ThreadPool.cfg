SPECIFICATION FairSpec
CONSTANTS num_threads = 3
          MaxTasks = 4
          Closers = {1, 3, 4}
INVARIANTS Inv
PROPERTIES AcceptedIsRun ShutdownEnds
CHECK_DEADLOCK FALSE
