CONSTANTS
  BLANK = BLANK
  Blank <- BLANK
  FoundationCfgs <- MCFoundationCfgs
  AppCfgs <- MCAppCfgs
  DefaultLocale <- MCDefaultLocale
  LittleEndian = FALSE
  Windows = FALSE
  UserLocales <- MCNoUserLocales
SPECIFICATION Spec
INVARIANTS
  LocaleStringIsNormalisedConfig
  LanguageAndCountryLetters
