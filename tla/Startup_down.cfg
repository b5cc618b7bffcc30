CONSTANTS
  db = db
  migrate = migrate
  api = api
  c1 = c1
  c2 = c2
  Service = {db, migrate, api}
  Oneshot = {migrate}
  Probed = {db}
  Built = {db, api}
  Deps <- Flat
  WaveOf <- FlatWaves
  Client = {c1, c2}
SPECIFICATION Spec
INVARIANT DownStopsEverything
