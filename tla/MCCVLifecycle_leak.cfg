SPECIFICATION Spec
CONSTANTS
  Null = Null
  Numbers <- MCNumbers
  Years <- MCYears
  NameParts <- MCNameParts
  AgeOf <- MCAgeOf
  LinkWindow = 4
  PDFs <- MCPDFs
  Recognised <- MCRecognised
  MaxHits = 3
  RequirementLists <- MCRequirementLists
  Decisions <- MCDecisions
  MaxIngestions = 2
  MaxEdits = 1
INVARIANTS
  ServingFileIsClean
