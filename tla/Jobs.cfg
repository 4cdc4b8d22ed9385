SPECIFICATION FairSpec
CONSTANT MaxJobs = 3

  
  
PROPERTIES
  
  AnswersAreLatest
  JobsEnd
CHECK_DEADLOCK FALSE
