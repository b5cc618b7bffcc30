\* A shell with two processes of its own, a hook with one; three instances of a
\* container.
CONSTANTS
  sh = sh
  worker = worker
  helper = helper
  hook_sh = hook_sh
  hook_worker = hook_worker
  Leader = sh
  Member = {worker, helper}
  HookProcess = {hook_sh, hook_worker}
  MaxStarts = 3
  Runtimes = {"process", "docker"}
SPECIFICATION FairSpec
INVARIANTS NothingOutlivesAKill
PROPERTIES KeepsThePromise StopReturns
CHECK_DEADLOCK FALSE
