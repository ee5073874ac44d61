SPECIFICATION Spec
CONSTANTS
  Nameable = {"cs", "en", "la"}
  Exotic = {"yue"}
  NoLang = NoLang
  Backends <- MCBackends
  Targets = {"en", "cs"}
  Defaults = {"cs", "en"}
  Sources = {"auto", "cs", "la"}
  Restrictions <- MCRestrictions
  MaxGuesses = 3
  MaxSegments = 2
INVARIANTS
  LanguageIsDecided
PROPERTIES
  UnsupportedTold
CHECK_DEADLOCK FALSE
