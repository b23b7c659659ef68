SPECIFICATION FairSpec
CONSTANTS Threads = {t1, t2}
          Values = {0, 1, 2, 3, 4, 9}
          n_stripes = 2
          load_factor = 1
          growth_factor = 2
          Initial = {1, 2, 4}
          MaxCalls = 3
INVARIANTS Inv StripesSeparate
PROPERTIES GrowsOnceAlone ImplementsSet CallsReturn
CHECK_DEADLOCK FALSE
