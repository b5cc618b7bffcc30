\* One service, three requests: every way two commands and a third can meet.
CONSTANTS
  db = db
  api = api
  r1 = r1
  r2 = r2
  r3 = r3
  Service = {db}
  Foreign = {}
  Request = {r1, r2, r3}
  WaveOf <- OneWave
  Probed = {db}
SPECIFICATION Spec
SYMMETRY Requests
INVARIANTS OneInstance NeverStranded WaitingMeansHeld WorkIsExclusive RowTellsTruth
PROPERTIES AnswersAreTrue FailedBuildKeepsService
