SPECIFICATION Spec
CONSTANTS Threads = {t1, t2, t3, t4}
          Rounds = 2
          Eager = FALSE
          Spurious = TRUE
INVARIANTS Inv
PROPERTIES BarrierSafety
CHECK_DEADLOCK FALSE
