SPECIFICATION Spec
CONSTANTS
  Programs <- MCPrograms
  Commands = {"check", "complex", "pred", "explain"}
  Judge <- ProveNode
  Accepted <- WellFormed
  Unsatisfiable <- NeverFails
  Fulfilled <- ContractHolds
  IsPlain <- PlainNode
  Slow <- TakesLong
  IsCounted <- CountedNode
INVARIANTS TypeOK ProvedHolds CostsExact
CHECK_DEADLOCK FALSE
