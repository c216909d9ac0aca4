\* The Windows build: little-endian, the user locale read from the system.
CONSTANTS
  BLANK = BLANK
  Blank <- BLANK
  FoundationCfgs <- MCWinFoundationCfgs
  AppCfgs <- MCWinAppCfgs
  DefaultLocale <- MCDefaultLocale
  LittleEndian = TRUE
  Windows = TRUE
  UserLocales <- MCWinUserLocales
SPECIFICATION Spec
INVARIANTS
  LocaleStringIsNormalisedConfig
