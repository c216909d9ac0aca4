CONSTANTS
  BLANK = BLANK
  Blank <- BLANK
  FoundationCfgs <- MCFoundationCfgs
  AppCfgs <- MCAppCfgs
  DefaultLocale <- MCDefaultLocale
  LittleEndian = TRUE
  Windows = FALSE
  UserLocales <- MCNoUserLocales
SPECIFICATION Spec
INVARIANTS
  LanguageAndCountryLetters
