SPECIFICATION MCLiveSpec
CONSTANTS
  Sweeps = {s1}
  Clicks = {c1}
  MaxDeploys = 2
  MaxEdits = 1
  MaxFaults = 1
  Tabs = {t1}
  Handlers = {h1, h2}
  MaxChunks = 2
  MaxMishaps = 1
  Punctual = TRUE
  PatientJoin = TRUE
  NoTab = NoTab
  Calls = {d1, d2}
  Horizon = 3
  CatchUp = 2
  Schedules <- MCSchedules
  MaxSettings = 1
  MaxJobFaults = 1
  AwsRuns = {r1, r2}
  Delays <- MCDelays
  ClusterOnly = gcpCluster
  Issues = {egress, binauthz}
  Regions = {"east", "west"}
  ZonesOf <- MCZonesOf
  Nowhere = Nowhere
  MaxProvisions = 2
  MaxSelections = 2
  MaxRollouts = 1
  MaxLayerFaults = 1
  Components = {secret1, connector, template}
  Templates = {template}
  Inputs = {gcpKey}
  MaxCatalogFaults = 1
  Pages = {p1}
  Ticks = {k1}
  Learners = 3
  SaveEvery = 2
  MaxPulls = 2
  MaxPullFaults = 1
  StudioJobs = {j1, j2}
  Brought = brought
  NoVideo = NoVideo
  MaxImports = 2
  MaxStudioFaults = 1
  Visits = {v1, v2}
  Occasions <- MCOccasions
PROPERTIES
  TakenBack TakeArrives ApplyEnds PullEnds
CHECK_DEADLOCK FALSE
