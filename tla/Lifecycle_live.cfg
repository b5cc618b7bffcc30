\* Liveness; one service and two requests, no symmetry.
CONSTANTS
  db = db
  api = api
  r1 = r1
  r2 = r2
  r3 = r3
  Service = {db}
  Foreign = {api}
  Request = {r1, r2}
  WaveOf <- OneWave
  Probed = {}
SPECIFICATION FairSpec
PROPERTIES DownWins CrashIsSeen Answered
