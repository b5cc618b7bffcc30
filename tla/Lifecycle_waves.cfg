\* Two services in two waves, two requests: teardown and what it meets.
CONSTANTS
  db = db
  api = api
  r1 = r1
  r2 = r2
  r3 = r3
  Service = {db, api}
  Foreign = {}
  Request = {r1, r2}
  WaveOf <- TwoWaves
  Probed = {db}
SPECIFICATION Spec
SYMMETRY Requests
INVARIANTS DependentsFirst NothingLeftBehind
PROPERTIES SupervisesAsPromised
