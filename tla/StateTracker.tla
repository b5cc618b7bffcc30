---------------------------- MODULE StateTracker ----------------------------
(***************************************************************************)
(* The rows behind `arig ps` (src/state.rs).  StateTracker::apply is a     *)
(* fold over the event stream; here every event variant is an operator     *)
(* from the rows before to the rows after.  The Vec of rows is a function  *)
(* whose "absent" entries are the services that have no row.               *)
(***************************************************************************)
EXTENDS Integers

RowState == {"absent", "starting", "running", "stopping", "stopped",
             "building", "exited"}

Row == [state: RowState, desired: {"up", "stopped"},
        ready: {"unchecked", "pending", "ready"}, restarts: Nat, ran: BOOLEAN]

NoRow == [state |-> "absent", desired |-> "up", ready |-> "unchecked",
          restarts |-> 0, ran |-> FALSE]

Tracked(rows, s) == rows[s].state # "absent"

\* Every arm but the two that create a row only touches one that exists.
Update(rows, s, row) == IF Tracked(rows, s) THEN [rows EXCEPT ![s] = row] ELSE rows

ServiceStarted(rows, s, probed) ==
  [rows EXCEPT ![s] =
    [state |-> "running", desired |-> "up", ran |-> TRUE,
     ready |-> IF probed THEN "pending" ELSE "unchecked",
     restarts |-> IF @.ran THEN @.restarts + 1 ELSE @.restarts]]

StartRequested(rows, s) ==
  Update(rows, s, [rows[s] EXCEPT !.state = "starting", !.desired = "up"])

StopRequested(rows, s) ==
  Update(rows, s, [rows[s] EXCEPT !.state = "stopping", !.desired = "stopped"])

ServiceStopped(rows, s) ==
  Update(rows, s, [rows[s] EXCEPT !.state = "stopped", !.ready = "unchecked"])

\* Faulty: a probe's success is only noted on a row that still reads "starting".
ServiceReadyWhileStarting(rows, s) ==
  IF rows[s].state = "starting" THEN Update(rows, s, [rows[s] EXCEPT !.ready = "ready"]) ELSE rows

ServiceReady(rows, s) == Update(rows, s, [rows[s] EXCEPT !.ready = "ready"])

OneshotCompleted(rows, s, success) ==
  IF success THEN [rows EXCEPT ![s] = NoRow] ELSE rows

BuildStarted(rows, s) ==
  CASE ~Tracked(rows, s)            -> [rows EXCEPT ![s] = [NoRow EXCEPT !.state = "building"]]
    [] rows[s].state = "stopped"    -> [rows EXCEPT ![s].state = "building"]
    [] OTHER                        -> rows

\* Faulty: the two ends of a build change places.
BuildFinishedSwapped(rows, s) ==
  IF rows[s].state = "building"
  THEN [rows EXCEPT ![s].state = IF rows[s].ran THEN "starting" ELSE "stopped"]
  ELSE rows

BuildFinished(rows, s) ==
  IF rows[s].state = "building"
  THEN [rows EXCEPT ![s].state = IF rows[s].ran THEN "stopped" ELSE "starting"]
  ELSE rows

ServiceExited(rows, s) == Update(rows, s, [rows[s] EXCEPT !.state = "exited"])
=============================================================================
