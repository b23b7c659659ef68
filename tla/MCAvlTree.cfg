SPECIFICATION MCSpec
CONSTANTS Keys = {1, 2, 3, 4, 5, 6, 7, 8, 9, 10, 11, 12, 14}
          MaxNodes = 14
          FewKeys = {1, 2, 3, 4, 5, 6, 7}
          FewNodes = 7
INVARIANTS WellFormed KeysAreExpected OrderStatistics
VIEW MCView
CHECK_DEADLOCK FALSE
