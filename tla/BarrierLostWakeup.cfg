SPECIFICATION FairSpec
CONSTANTS Threads = {t1, t2, t3}
          Rounds = 1
          Eager = TRUE
          Spurious = FALSE
PROPERTIES GatheredGoOn
CHECK_DEADLOCK FALSE
