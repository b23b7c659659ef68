SPECIFICATION Spec
CONSTANTS Threads = {t1, t2}
          MaxEnqueues = 2
          MaxDequeues = 1
INVARIANTS QueueIsKept
CHECK_DEADLOCK FALSE
