SPECIFICATION FairSpec
CONSTANTS
  Position = {none, home, a, b}
  NoPosition = NoPosition
  Empty = none
  Start = {none, home}
  Blank = {none}
  Askable = {a, b}
  Typed = {NoText, "q", "sig", "none"}
  NoText = NoText
  MaxGeneration = 4
  MaxContext = 3
CHECK_DEADLOCK FALSE
INVARIANTS
  ListBelongs
  
  AnswerIsForRequest
PROPERTIES
  LeaveEnds
  RequestAnswered
