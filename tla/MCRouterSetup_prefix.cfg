\* Up to two flists; ranges of up to three digits in the local router.
SPECIFICATION Spec
CONSTANTS
  hub = hub
  near = near
  MaxFlists = 2
  Configs <- ConfigsOf
  LocalConfigs <- LocalConfigsOf
  Base = 2
  MaxDigits = 3
  HashBytes = 2
  Missing = Missing
  Broken = Broken
  Simple = simple
  NoRouter = NoRouter
CHECK_DEADLOCK FALSE
INVARIANTS
  MatchesDigits
