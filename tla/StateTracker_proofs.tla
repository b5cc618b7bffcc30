------------------------- MODULE StateTracker_proofs -------------------------
(***************************************************************************)
(* Every arm of StateTracker::apply turns rows into rows.  The theorems    *)
(* about the modules that drive the tracker cite these by name.            *)
(***************************************************************************)
EXTENDS StateTracker, TLAPS

\* A row rewritten in place is still a table of rows.
LEMMA UpdateType ==
  ASSUME NEW S, NEW rows \in [S -> Row], NEW s \in S, NEW row \in Row
  PROVE  Update(rows, s, row) \in [S -> Row]
BY DEF Update

\* ServiceStarted writes a whole row and counts restarts from what was there.
LEMMA ServiceStartedType ==
  ASSUME NEW S, NEW rows \in [S -> Row], NEW s \in S, NEW probed \in BOOLEAN
  PROVE  ServiceStarted(rows, s, probed) \in [S -> Row]
<1> DEFINE row == [state |-> "running", desired |-> "up", ran |-> TRUE,
                   ready |-> IF probed THEN "pending" ELSE "unchecked",
                   restarts |-> IF rows[s].ran THEN rows[s].restarts + 1
                                ELSE rows[s].restarts]
<1>1. rows[s] \in Row
  OBVIOUS
<1>2. rows[s].restarts \in Nat
  BY <1>1 DEF Row
<1>3. row \in Row
  BY <1>2 DEF Row, RowState
<1>4. ServiceStarted(rows, s, probed) = [rows EXCEPT ![s] = row]
  BY DEF ServiceStarted
<1> QED
  BY <1>3, <1>4

\* The arms that change fields of a row leave a row.
LEMMA RowChangesType ==
  ASSUME NEW S, NEW rows \in [S -> Row], NEW s \in S
  PROVE  /\ StartRequested(rows, s) \in [S -> Row]
         /\ StopRequested(rows, s) \in [S -> Row]
         /\ ServiceStopped(rows, s) \in [S -> Row]
         /\ ServiceReady(rows, s) \in [S -> Row]
         /\ ServiceExited(rows, s) \in [S -> Row]
<1>1. rows[s] \in Row
  OBVIOUS
<1>2. /\ [rows[s] EXCEPT !.state = "starting", !.desired = "up"] \in Row
      /\ [rows[s] EXCEPT !.state = "stopping", !.desired = "stopped"] \in Row
      /\ [rows[s] EXCEPT !.state = "stopped", !.ready = "unchecked"] \in Row
      /\ [rows[s] EXCEPT !.ready = "ready"] \in Row
      /\ [rows[s] EXCEPT !.state = "exited"] \in Row
  BY <1>1 DEF Row, RowState
<1> QED
  BY <1>2, UpdateType DEF StartRequested, StopRequested, ServiceStopped, ServiceReady,
                          ServiceExited

\* The arms of a build leave a row, or make one.
LEMMA BuildRowsType ==
  ASSUME NEW S, NEW rows \in [S -> Row], NEW s \in S
  PROVE  /\ BuildStarted(rows, s) \in [S -> Row]
         /\ BuildFinished(rows, s) \in [S -> Row]
<1>1. rows[s] \in Row
  OBVIOUS
<1>2. /\ [NoRow EXCEPT !.state = "building"] \in Row
      /\ [rows[s] EXCEPT !.state = "building"] \in Row
      /\ [rows[s] EXCEPT !.state = "stopped"] \in Row
      /\ [rows[s] EXCEPT !.state = "starting"] \in Row
  BY <1>1 DEF Row, RowState, NoRow
<1> QED
  BY <1>1, <1>2 DEF BuildStarted, BuildFinished

\* A oneshot that succeeded loses its row; any other keeps it.
LEMMA OneshotCompletedType ==
  ASSUME NEW S, NEW rows \in [S -> Row], NEW s \in S, NEW success \in BOOLEAN
  PROVE  OneshotCompleted(rows, s, success) \in [S -> Row]
<1>1. NoRow \in Row
  BY DEF NoRow, Row, RowState
<1> QED
  BY <1>1 DEF OneshotCompleted
=============================================================================
