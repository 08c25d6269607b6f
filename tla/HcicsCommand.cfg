SPECIFICATION Spec
CONSTANTS
  Token <- MCToken
  Texts <- MCTexts
INVARIANTS
  TypeOK
  AcceptsWhatIsWritten
CHECK_DEADLOCK FALSE
