CONSTANTS
  None = None
  FloatDigits = 2
  Values <- MCValues
  Typed <- MCTyped
  SchemaFiles <- MCSchemaFiles
  Preferences <- MCPreferences
  MaxCalls = 3
SPECIFICATION Spec
INVARIANT ReadsAreSettings
INVARIANT ListingsAgree
INVARIANT TextsRestore
PROPERTY RestartKeepsReadings
