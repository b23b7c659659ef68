SPECIFICATION FairSpec
CONSTANTS Clients = {c1, c2, c3}
          Slots = 2
          Backlog = 2
INVARIANTS AnswersEnd
PROPERTIES OnlySilenceBlocks
CHECK_DEADLOCK FALSE
