------------------------------ MODULE JobStore ------------------------------
(***************************************************************************)
(* The PostgreSQL side of the runtime: the tables jobs, job_events,        *)
(* job_finalizations and finalization_conflict_attempts, and the           *)
(* statements the workers, the recovery pass and the clients run on them.  *)
(*                                                                         *)
(* Every transaction of the code that does nothing but SQL is one step: it *)
(* starts by taking the row of its job (SELECT ... FOR UPDATE, or an       *)
(* UPDATE, or a foreign-key check) and nothing can come between its        *)
(* statements that a serial order would not explain.  The exception is a   *)
(* transaction that awaits Redis while it holds the row: for the time it   *)
(* is open its job is in `locked' and no other transaction on it runs.     *)
(***************************************************************************)
EXTENDS Naturals, Sequences, JobDomain

VARIABLES
  status,          \* jobs.status, "absent" while there is no row
  finalization,    \* the row of job_finalizations, or NotFinalized
  conflicts,       \* number of rows in finalization_conflict_attempts
  events,          \* the rows of job_events, in order
  locked           \* jobs whose row an open transaction holds across an await

storeVars == <<status, finalization, conflicts, events, locked>>

-----------------------------------------------------------------------------
TERMINAL_STATUSES == {"completed", "failed", "timed_out", "cancelled"}

Statuses == {"absent", "submitted", "queued", "running"} \cup TERMINAL_STATUSES

\* event_type of the rows finalize_job inserts
TerminalEventTypes == TERMINAL_STATUSES \cup {"budget_blocked"}

RetryEventTypes == {"retry_scheduled", "stale_lease_recovered"}

EventTypes ==
  {"submitted", "running"} \cup RetryEventTypes \cup TerminalEventTypes

\* `by' is the stream entry whose execution wrote the event (the worker_id and
\* the stale_entry_id of event_data), 0 when no execution did.
Event == [type : EventTypes, attempt : Nat, by : Nat]

Finalization == [status : TERMINAL_STATUSES \cup {"none"},
                 event_type : TerminalEventTypes \cup {"none"}]

NotFinalized == [status |-> "none", event_type |-> "none"]

Finalized(j) == finalization[j].status # "none"

StoreInit ==
  /\ status = [j \in Jobs |-> "absent"]
  /\ finalization = [j \in Jobs |-> NotFinalized]
  /\ conflicts = [j \in Jobs |-> 0]
  /\ events = [j \in Jobs |-> <<>>]
  /\ locked = {}

-----------------------------------------------------------------------------
(* Statements *)

AppendEvent(j, type, attempt, by) ==
  events' = [events EXCEPT
               ![j] = Append(@, [type |-> type, attempt |-> attempt, by |-> by])]

\* The job row and its "submitted" event, in one transaction.
create_job(j) ==
  /\ status[j] = "absent"
  /\ status' = [status EXCEPT ![j] = "submitted"]
  /\ AppendEvent(j, "submitted", 0, 0)
  /\ UNCHANGED <<finalization, conflicts>>

\* An UPDATE of jobs.status with no condition but the job's id, and an event.
record_state_event(j, newStatus, type, attempt, by) ==
  /\ status' = [status EXCEPT ![j] = newStatus]
  /\ AppendEvent(j, type, attempt, by)
  /\ UNCHANGED <<finalization, conflicts>>

\* Mutant: the finalization is inserted without looking for a conflict.
finalize_job_unchecked(j, newStatus, type, attempt, by) ==
  /\ finalization' = [finalization EXCEPT
                        ![j] = [status |-> newStatus, event_type |-> type]]
  /\ status' = [status EXCEPT ![j] = newStatus]
  /\ AppendEvent(j, type, attempt, by)
  /\ UNCHANGED conflicts

\* Mutant: jobs.status is updated before the conflict is noticed.
finalize_job_status_first(j, newStatus, type, attempt, by) ==
  /\ status' = [status EXCEPT ![j] = newStatus]
  /\ \/ /\ Finalized(j)
        /\ conflicts' = [conflicts EXCEPT ![j] = @ + 1]
        /\ UNCHANGED <<finalization, events>>
     \/ /\ ~Finalized(j)
        /\ finalization' = [finalization EXCEPT
                              ![j] = [status |-> newStatus, event_type |-> type]]
        /\ AppendEvent(j, type, attempt, by)
        /\ UNCHANGED conflicts

\* INSERT ... ON CONFLICT DO NOTHING into job_finalizations: the first writer
\* sets the status and appends the event, every later one only counts.
finalize_job(j, newStatus, type, attempt, by) ==
  \/ /\ Finalized(j)
     /\ conflicts' = [conflicts EXCEPT ![j] = @ + 1]
     /\ UNCHANGED <<status, finalization, events>>
  \/ /\ ~Finalized(j)
     /\ finalization' = [finalization EXCEPT
                           ![j] = [status |-> newStatus, event_type |-> type]]
     /\ status' = [status EXCEPT ![j] = newStatus]
     /\ AppendEvent(j, type, attempt, by)
     /\ UNCHANGED conflicts

\* load_job_for_update waits while another transaction holds the row.
RowFree(j) == j \notin locked

StoreTypeOK ==
  /\ status \in [Jobs -> Statuses]
  /\ finalization \in [Jobs -> Finalization]
  /\ conflicts \in [Jobs -> Nat]
  /\ events \in [Jobs -> Seq(Event)]
  /\ locked \subseteq Jobs

=============================================================================
