SPECIFICATION TsSpec
CONSTANTS
  Client = {c1, c2, c3}
  TsQuery = {q1, q2}
  None = None
  WorkersBehavior = "start"
INVARIANTS
  Sequential
  AnswersOwnQuery

  
