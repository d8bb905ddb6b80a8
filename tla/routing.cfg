SPECIFICATION RoutingSpec
CONSTANTS
  None = None
  Texts = {}
  NoValue = NoValue
  SeverityLabel = "severity"
  Severe <- TheSevere
  g1 = g1  g2 = g2  c1 = c1  c2 = c2  c3 = c3  u1 = u1  here = here
  Guilds = {g1, g2}
  Nowhere = Nowhere
  Bodies <- TheBodies
  Declared <- TheDeclared
  Files <- TheFiles
  Added <- TheAdded
  Rules <- TheRules
  Subs <- TheSubs
  Anywhere = here
  Alerts <- TheAlerts
  Handlers = {h1, h2}
  MaxPriority = 99
  Commands = 2
  Changes = 2
  Starts = 1
  LabelsOf <- TheLabels
  Ignored = {"instance"}
  Filters <- TheFilters
  ScanLimit = 2
  MaxTime = 3
INVARIANTS RoutingTypeOK FileOwnsItsRoutes RoutesAreFirstMatches PublishedIsTable PagesAreWhole
PROPERTIES FiringReachesAll
CHECK_DEADLOCK FALSE
