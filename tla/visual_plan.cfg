SPECIFICATION Spec
CONSTANTS
  SourceForms <- MCSourceForms
  SourceEdits <- MCSourceEdits
  Answers <- MCAnswers
  Choices <- MCChoices
  AnswerSets <- MCAnswerSets
  Failing = {"refresh", "savePlan"}
  MaxSources = 2
  MaxJobs = 1
  MaxDeliveries = 2
  LostReplies = TRUE
INVARIANTS
  
  
  BlockedIsExplained

  
CHECK_DEADLOCK FALSE
