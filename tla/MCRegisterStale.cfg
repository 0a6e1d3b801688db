SPECIFICATION RegSpec
CONSTANTS
  Officers = {ann, bo}
  Obligations = {1, 2}
  Entities = {"e1"}
  Whole = Whole
  Recurring = {1}
  Asked <- MCAsked
  LastDay = 2
  LastDue = 2
  MaxAnswers = 2
\* Answers and days are bounded.
CHECK_DEADLOCK FALSE
PROPERTIES
  AnswerLandsOnItsVersion
