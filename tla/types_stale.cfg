SPECIFICATION Spec
CONSTANTS
  Programs <- MCPrograms
  Ground <- MCGround
  Inferred <- InferBool
  Meet <- UnifyUnder
  Applied <- Apply
  Loops <- Cyclic
  Instance <- Instantiate
  Unaliased <- Resolve
  HasType <- TypesAsBool
  InstancesFor <- InstancesOf
  IsPlain <- PlainPredicate
INVARIANT AcceptedIsWellTyped
CHECK_DEADLOCK FALSE
