----------------------------- MODULE Inspection -----------------------------
(***************************************************************************)
(* inspect_queue_backpressure: an operator looks at the queue while        *)
(* clients, workers and recovery passes go on.  Every figure is read by a  *)
(* command or statement of its own and so belongs to a moment of its own;  *)
(* the model follows queue_depth, the one figure that sums up two, and     *)
(* what it says of jobs whose state is in the database.                    *)
(***************************************************************************)
EXTENDS RuntimeGrid

CONSTANT
  MaxInspections   \* bound: how often the operator looks

VARIABLES
  queue_depth,     \* what the latest inspection reported
  known,           \* the jobs that were published when it looked
  inspections      \* how many there were

inspectionVars == <<queue_depth, known, inspections>>

ivars == <<vars, inspectionVars>>

ASSUME MaxInspectionsAssumption == MaxInspections \in Nat

IInit ==
  /\ Init
  /\ queue_depth = 0
  /\ known = {}
  /\ inspections = 0

-----------------------------------------------------------------------------
\* Mutant: messages nobody has been given yet are left out of the depth.
depth_without_lag == Cardinality(pel)

\* XINFO GROUPS: the size of the pending list, and the entries after
\* last-delivered-id (no entry is ever deleted, so Redis knows the lag).
consumer_group_depth == Cardinality(pel) + (Len(stream) - delivered)

inspect_queue_backpressure ==
  /\ inspections < MaxInspections
  /\ queue_depth' = consumer_group_depth
  /\ known' = {j \in Jobs : submission[j] = "published"}
  /\ inspections' = inspections + 1
  /\ UNCHANGED vars

INext ==
  \/ Next /\ UNCHANGED inspectionVars
  \/ inspect_queue_backpressure

ISpec == IInit /\ [][INext]_ivars

-----------------------------------------------------------------------------
(* Properties *)

\* A queue_depth of zero means that the work is done, not merely that no worker
\* has any: every job published by then that may be dispatched is finalized, even
\* while an execution whose entry was taken from it is still going on.
EmptyQueueMeansDone ==
  queue_depth = 0 => \A j \in known : DispatchAllowed(j) => Finalized(j)

=============================================================================
