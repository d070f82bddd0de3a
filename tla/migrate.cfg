SPECIFICATION Spec
CONSTANTS
  Names <- MCNames
  Questions <- MCQuestions
  TypeNames <- MCTypeNames
  Numerals <- MCNumerals
  StrLits <- MCStrLits
  Inputs <- LayoutInputs
  Lines <- MCLines
  Meant <- MCMeant
  Library <- MCLibrary
  Migrated <- MigrateSource
  ReadDecl <- ParseDecl
  TypeNamesIn <- BaseNames
  StringsNamed <- StringStrict
  WorldsRooted <- NoBareWorld
  StructuresNamed <- StrictCheck
  CanonOf <- ProgramCanon
  HashOf <- HashProgram
  Checked <- ArtifactCheck
  ArtifactFor <- ArtifactOf
INVARIANT MigrationKeepsTheRest
CHECK_DEADLOCK FALSE
