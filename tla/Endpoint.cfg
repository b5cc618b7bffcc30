\* Two supervisors in the foreground, one spawned by an `up -d`, one `down`,
\* and two process numbers.
CONSTANTS
  fore1 = fore1
  fore2 = fore2
  back = back
  p1 = p1
  p2 = p2
  down1 = down1
  Supervisor = {fore1, fore2, back}
  Detached = {back}
  Client = {down1}
  Pid = {p1, p2}
SPECIFICATION Spec
SYMMETRY Alike
INVARIANTS OneSupervisor StoppedIsStopped OwnSupervisorAnswers
PROPERTIES RefusedForCause
CHECK_DEADLOCK FALSE
