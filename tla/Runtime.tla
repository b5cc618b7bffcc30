------------------------------ MODULE Runtime ------------------------------
(***************************************************************************)
(* What the runtimes share (src/runtime/mod.rs): the handle the kernel     *)
(* holds on one service, and how far its calls on it have come.            *)
(***************************************************************************)
EXTENDS Integers

VARIABLES
  call,     \* the kernel's last call on the handle that has an effect
  step,     \* where that call is
  outcome   \* what it learnt: Exit and StopOutcome

handle == <<call, step, outcome>>

Call    == {"none", "running", "begun", "finishing", "returned", "ended"}
Outcome == {"none", "exited", "killed"}

HandleOK == call \in Call /\ outcome \in Outcome

\* No instance is in the kernel's hands.
Free == call \in {"none", "returned", "ended"}

\* The kernel's next call, from where it is.
Calls(from, to) == call = from /\ call' = to

\* The call is over.
Returns(to, o) == call' = to /\ outcome' = o /\ step' = "idle"
=============================================================================
