SPECIFICATION Spec
CONSTANTS
  Programs <- MCPrograms
  Commands = {"pred"}
  Judge <- ProveNode
  Accepted <- WellFormed
  Unsatisfiable <- NeverFails
  Fulfilled <- ContractHolds
  IsPlain <- PlainNode
  Slow <- TakesLong
  IsCounted <- CountedNode
INVARIANTS ProvedMeansValid
CHECK_DEADLOCK FALSE
