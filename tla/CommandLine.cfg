SPECIFICATION Spec
CONSTANTS
  Values = {"v", "w"}
  Abbreviates <- AbbreviatesValue
  Lines <- AllLines
  Modulus = 8192
INVARIANTS
  TypeOK CommandKept RefusedForAReason LastWins SecureAsGiven TimeoutKept
  NamesKept AttachmentsKept
