\* Up to two flists; every range of up to four digits in the local router.
SPECIFICATION Spec
CONSTANTS
  hub = hub
  near = near
  MaxFlists = 2
  Configs <- ConfigsOf
  LocalConfigs <- LocalConfigsOf
  Base = 2
  MaxDigits = 4
  HashBytes = 2
  Missing = Missing
  Broken = Broken
  Simple = simple
  NoRouter = NoRouter
CHECK_DEADLOCK FALSE
INVARIANTS
  NamesResolve
  TablesMerged
  NeverTooWide
