SPECIFICATION Spec
CONSTANTS
  Tools = {mail, note}
  DeclaredSensitive = {mail}
  Once = mail
  DefinedAttempts <- MCDefinedAttempts
  DefaultAttempts = 2
  NoEntry = NoEntry
INVARIANTS
  TypeOK
  SensitiveIsReviewed
  OnlyValidInputs
  RowsTellTheCalls
CHECK_DEADLOCK FALSE
