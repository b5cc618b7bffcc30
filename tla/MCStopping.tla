------------------------------ MODULE MCStopping ------------------------------
(* Instances of Stopping for TLC. *)
EXTENDS Stopping

CONSTANTS sh, worker, helper, hook_sh, hook_worker
===============================================================================
