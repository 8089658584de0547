SPECIFICATION FairSpec
CONSTANTS
  a1 = a1
  a2 = a2
  Workers = {w1, w2}
  Articles = {a1, a2}
  Topics = {1, 2, 3}
  HashText <- MCHashes
  Answers <- MCAnswers
  MaxTopics = 2
  BatchSize = 2
  MaxAttempts = 2
  MaxFaults = 3
  NoArticle = NoArticle
INVARIANTS TypeOK LogInv NoWaitCycle OneAnswer
PROPERTIES ImplementsTopicLog EveryJobSettles
CHECK_DEADLOCK FALSE
