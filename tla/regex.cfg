SPECIFICATION Spec
CONSTANTS
    EmptyChar <- MCEmptyChar
    MaxChar   <- MCMaxChar
    Instances <- MCInstances
    MaxBuffer = 4
    MaxStuck  = 2
INVARIANTS PatternMeaning LanguageExact LanguageCovered DeadExact
PROPERTY CharactersRoundTrip
CHECK_DEADLOCK FALSE
