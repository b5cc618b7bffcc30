CONSTANTS
  db = db
  api = api
  r1 = r1
  r2 = r2
  r3 = r3
  Service = {db}
  Foreign = {}
  Request = {r1, r2}
  WaveOf <- OneWave
  Probed = {db}
SPECIFICATION Spec
INVARIANT PendingIsProbed
