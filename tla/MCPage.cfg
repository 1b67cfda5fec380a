CONSTANTS
  a = a
  b = b
  c = c
  name1 = name1
  tile1 = tile1
  None = None
  Unnamed = Unnamed
  Live = Live
  Running = Running
  Nothing = Nothing
  ViewCharts = {c}
  ViewTables = {tile1}
  ViewTabs = {1, 2}
  TabOf <- ViewTabOf
  Windows = {1, 2}
  Horizon = 1
  HoldMax = 2
  Slack = 0
  Lag = 1
  MaxT = 3
  AutoAxis = AutoAxis
  Empty = Empty
  Curves = {a, b}
  Bits = {b}
  UnitOf <- PageUnit
  Top = 1
  Shows <- PageShows
  HandRanges <- PageHand
SPECIFICATION PageSpec
INVARIANTS
  MosaicSettled
  WorkspaceSound
  ValuesOfTheirInstant
  ScalesRight
PROPERTIES
  MosaicSteady
  GesturesKept
  FrozenStands
