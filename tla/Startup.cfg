\* A database with a probe and a oneshot in the first wave, a service that
\* needs both in the second, builds for two of them, and two clients.
CONSTANTS
  db = db
  migrate = migrate
  api = api
  c1 = c1
  c2 = c2
  Service = {db, migrate, api}
  Oneshot = {migrate}
  Probed = {db}
  Built = {db, api}
  Deps <- Flat
  WaveOf <- FlatWaves
  Client = {c1, c2}
SPECIFICATION FairSpec
INVARIANTS DependenciesFirst BuildsFirst ReadyIsEarned ClientsHearTheTruth NoServiceSurvives HandsOver
PROPERTIES VerdictIsFinal DownEnds StartupSettles NobodyHangs
