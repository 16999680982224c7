SPECIFICATION FairSpec
CONSTANTS
  home = home
  office = office
  shell = shell
  panel = panel
  watchdog = watchdog
  setup = setup
  open = open
  Prefixes = {home, office}
  Admins = {shell, panel}
  Panels = {panel}
  Client <- MCClient
  Restorers = {watchdog, setup}
  Watchdog = watchdog
  Commands <- MCCommands
  Open = open
  MaxCommands = 2
  MaxFaults = 2
INVARIANTS
  PlacesAgreeAtRest
PROPERTIES
  EditsAreSafe
  EnforcedIsInstalled
