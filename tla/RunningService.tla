--------------------------- MODULE RunningService ---------------------------
(***************************************************************************)
(* What the kernel relies on (trait RunningService, src/runtime/mod.rs),   *)
(* whatever the runtime: a service that has been stopped is gone.          *)
(***************************************************************************)
VARIABLES
  call,    \* the kernel's last call
  up,      \* the service runs
  failed   \* the runtime could neither follow the service nor remove it

vars == <<call, up, failed>>

Init == call = "none" /\ up = FALSE /\ failed = FALSE

\* spawn: a new instance, once the last one is gone.
Spawns == /\ call \in {"none", "returned", "ended"} /\ call' = "running"
          /\ ~up /\ up' /\ failed' = FALSE

\* It ends, whether it was asked to or not.
Ends == up /\ ~up' /\ UNCHANGED <<call, failed>>

\* wait and try_exit report an exit: it is gone.
Exits == call = "running" /\ call' = "ended" /\ (~up \/ failed') /\ UNCHANGED up

\* begin_stop, without blocking.
BeginStop == call = "running" /\ call' = "begun" /\ UNCHANGED <<up, failed>>

FinishStop == call = "begun" /\ call' = "finishing" /\ UNCHANGED <<up, failed>>

\* finish_stop and kill return: "wait for the service to actually be gone".
Returns == /\ call \in {"running", "finishing"} /\ call' = "returned"
           /\ (up' => up) /\ (~up' \/ failed')

Next == Spawns \/ Ends \/ Exits \/ BeginStop \/ FinishStop \/ Returns

Spec == Init /\ [][Next]_vars
=============================================================================
