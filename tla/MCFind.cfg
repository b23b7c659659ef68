SPECIFICATION FairSpec
CONSTANTS Dirs = {root, sub}
          Root = root
          Files <- MCFiles
          Entries <- MCEntries
          Templates <- ItemSeqs
          Matches <- MCMatches
          Limits = {7, 8}
          MaxItems = 4
          MaxName = 4
INVARIANTS SignalMeetsItsCall PrintedIsRight DescriptorsSuffice GlobIsRight
PROPERTIES WalkEnds
CHECK_DEADLOCK FALSE
