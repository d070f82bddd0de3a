SPECIFICATION Spec
CONSTANTS
  Names <- MCNames
  Questions <- MCQuestions
  TypeNames <- MCTypeNames
  Numerals <- MCNumerals
  StrLits <- MCStrLits
  Inputs <- MCInputs
  Lines <- MCLines
  Meant <- MCMeant
  Library <- MCLibrary
  Migrated <- MigrateSource
  ReadDecl <- ParseDecl
  TypeNamesIn <- BaseNames
  StringsNamed <- StringStrict
  WorldsRooted <- NoBareWorld
  StructuresNamed <- StrictCheck
  CanonOf <- ProgramCanon
  HashOf <- HashProgram
  Checked <- ArtifactCheck
  ArtifactFor <- ArtifactOf
INVARIANTS TypeOK ReadsWhatWasWritten NameModesHold TextModesHold ArtifactTellsTheProgram SameHashSameContract
CHECK_DEADLOCK FALSE
