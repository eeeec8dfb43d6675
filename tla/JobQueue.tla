------------------------------ MODULE JobQueue ------------------------------
(***************************************************************************)
(* The Redis Streams queue: the stream of job messages, the consumer       *)
(* group's cursor and pending entries list, and the dead-letter stream.    *)
(* Entries are named by their position: ids grow with every XADD and no    *)
(* entry is ever trimmed or deleted by this code.                          *)
(***************************************************************************)
EXTENDS Naturals, Sequences, FiniteSets, JobDomain

VARIABLES
  stream,     \* the job stream: a message per entry
  delivered,  \* last-delivered-id of the consumer group
  pel,        \* pending entries: delivered and not acknowledged
  stale,      \* pending entries idle for at least stale_after_ms
  dlq         \* the dead-letter stream

queueVars == <<stream, delivered, pel, stale, dlq>>

-----------------------------------------------------------------------------
QueueJobMessage == [job : Jobs, attempt : Nat]

QueueInit ==
  /\ stream = <<>>
  /\ delivered = 0
  /\ pel = {}
  /\ stale = {}
  /\ dlq = <<>>

Entries == 1 .. Len(stream)

\* The group still owes entry i a delivery or an acknowledgement.
Unacked(i) == i > delivered \/ i \in pel

-----------------------------------------------------------------------------
(* Commands *)

\* XADD
publish_job(j, attempt) ==
  /\ stream' = Append(stream, [job |-> j, attempt |-> attempt])
  /\ UNCHANGED <<delivered, pel, stale, dlq>>

\* Mutant: XREADGROUP with NOACK, the entry never becomes pending.
lease_jobs_noack ==
  /\ delivered < Len(stream)
  /\ delivered' = delivered + 1
  /\ UNCHANGED <<stream, pel, stale, dlq>>

\* XREADGROUP ... ">" COUNT 1: the next entry nobody was given.
lease_jobs ==
  /\ delivered < Len(stream)
  /\ delivered' = delivered + 1
  /\ pel' = pel \cup {delivered + 1}
  /\ UNCHANGED <<stream, stale, dlq>>

\* Mutant: an acknowledged entry keeps showing up as idle.
acknowledge_keeps_stale(i) ==
  /\ pel' = pel \ {i}
  /\ UNCHANGED <<stream, delivered, stale, dlq>>

\* XACK: no effect on an entry that is not pending.
acknowledge(i) ==
  /\ pel' = pel \ {i}
  /\ stale' = stale \ {i}
  /\ UNCHANGED <<stream, delivered, dlq>>

\* XCLAIM with min_idle_time 0: resets the idle time of a pending entry.
renew_pending_lease(i) ==
  /\ stale' = stale \ {i}
  /\ UNCHANGED <<stream, delivered, pel, dlq>>

\* Time passes with no delivery or claim of a pending entry.
lease_expires(i) ==
  /\ i \in pel \ stale
  /\ stale' = stale \cup {i}
  /\ UNCHANGED <<stream, delivered, pel, dlq>>

\* Mutant: the range starts after the oldest pending entry.
find_stale_leases_after_first(count) ==
  {i \in stale : Cardinality({k \in stale : k < i}) \in 1 .. count}

\* XPENDING ... IDLE: the count stale entries with the lowest ids.
find_stale_leases(count) ==
  {i \in stale : Cardinality({k \in stale : k < i}) < count}

\* The XADD of move_to_dead_letter; the XACK that follows it is acknowledge.
append_dead_letter(i) ==
  /\ dlq' = Append(dlq, [job |-> stream[i].job, attempt |-> stream[i].attempt])
  /\ UNCHANGED <<stream, delivered, pel, stale>>

QueueTypeOK ==
  /\ stream \in Seq(QueueJobMessage)
  /\ delivered \in Nat
  /\ delivered <= Len(stream)
  /\ pel \subseteq 1 .. delivered
  /\ stale \subseteq pel
  /\ dlq \in Seq(QueueJobMessage)

=============================================================================
